---- MODULE Spec2Model ----
(***************************************************************************)
(* Model of the PinShop marketplace backend (backend/api): the catalog     *)
(* store (Produit, Seller), the public catalog views, the management       *)
(* views and the admin bulk actions.                                       *)
(*                                                                         *)
(* Conventions                                                             *)
(*   - text is a sequence of one-character strings;                        *)
(*   - a stored price is a whole number of FCFA, a stored discount a whole *)
(*     percentage; a Python float or Decimal is an exact fraction num/den  *)
(*     (binary rounding is not modelled);                                  *)
(*   - an optional value is a sequence of length 0 (absent/null) or 1;     *)
(*   - a timestamp is a reading of the logical clock `now`, which ticks on *)
(*     every save of a Produit (created_at auto_now_add, updated_at        *)
(*     auto_now);                                                          *)
(*   - the state is the database; a view is an operator from the store,    *)
(*     the caller and the request to the store it leaves and the response  *)
(*     it returns, and the action of a view applies it to the store.       *)
(***************************************************************************)
EXTENDS Integers, Sequences, FiniteSets, TLC

VARIABLES
    produits,       \* table api_produit: id -> row
    sellers,        \* table api_seller:  id -> row
    nextProduitId,  \* AutoField sequence of api_produit
    nextSellerId,   \* AutoField sequence of api_seller
    now,            \* logical clock
    instance,       \* a Produit instance in memory: its prix and reduction
    returned,       \* what the last call on the instance returned
    requests        \* the requests being served concurrently, step by step

vars == <<produits, sellers, nextProduitId, nextSellerId, now, instance, returned,
          requests>>

(***************************************************************************)
(* Bounds of the model.                                                    *)
(***************************************************************************)
MaxClock == 3       \* saves of a Produit (timestamps assigned)

(***************************************************************************)
(* Text helpers (Python str / SQL LIKE).                                   *)
(***************************************************************************)
Lower(c) ==
    CASE c = "R" -> "r"
      [] c = "B" -> "b"
      [] c = "E" -> "e"
      [] c = "T" -> "t"
      [] OTHER -> c

lower(s) == [i \in 1..Len(s) |-> Lower(s[i])]

Min(a, b) == IF a <= b THEN a ELSE b

contains(hay, needle) ==
    \E i \in 0..(Len(hay) - Len(needle)) :
        SubSeq(hay, i + 1, i + Len(needle)) = needle

\* field__icontains=needle
icontains(hay, needle) == contains(lower(hay), lower(needle))

\* field__istartswith=needle
istartswith(hay, needle) ==
    /\ Len(needle) <= Len(hay)
    /\ SubSeq(lower(hay), 1, Len(needle)) = lower(needle)

\* text[:n]
Prefix(s, n) == SubSeq(s, 1, Min(n, Len(s)))

\* str.isdigit()
Digits == {"0", "1", "2", "3", "4", "5", "6", "7", "8", "9"}

\* Characters str.isdigit() accepts and int() does not: the superscript
\* digits (one of them stands for all)
SuperscriptDigits == {"²"}

isdigit(s) ==
    Len(s) > 0 /\ \A i \in 1..Len(s) : s[i] \in Digits \cup SuperscriptDigits

DigitValue(c) ==
    CASE c = "0" -> 0 [] c = "1" -> 1 [] c = "2" -> 2 [] c = "3" -> 3
      [] c = "4" -> 4 [] c = "5" -> 5 [] c = "6" -> 6 [] c = "7" -> 7
      [] c = "8" -> 8 [] c = "9" -> 9

RECURSIVE ParseInt(_)
\* int(s) for a string of digits
ParseInt(s) ==
    IF s = <<>> THEN 0
    ELSE 10 * ParseInt(SubSeq(s, 1, Len(s) - 1)) + DigitValue(s[Len(s)])

\* int(s) for a text isdigit() accepted: a superscript digit raises
\* ValueError
int(s) ==
    IF \A i \in 1..Len(s) : s[i] \in Digits
    THEN [raised |-> "", value |-> ParseInt(s)]
    ELSE [raised |-> "ValueError", value |-> 0]

RECURSIVE Split(_, _)
\* s.split(sep) for a one-character separator
Split(s, sep) ==
    IF \A i \in 1..Len(s) : s[i] # sep THEN <<s>>
    ELSE LET k == CHOOSE i \in 1..Len(s) :
                      s[i] = sep /\ \A j \in 1..(i - 1) : s[j] # sep
         IN  <<SubSeq(s, 1, k - 1)>> \o Split(SubSeq(s, k + 1, Len(s)), sep)

RECURSIVE JoinJson(_)
JoinJson(items) ==
    IF items = <<>> THEN <<>>
    ELSE <<"\"">> \o items[1] \o <<"\"">>
         \o (IF Len(items) > 1 THEN <<",", " ">> ELSE <<>>)
         \o JoinJson(Tail(items))

\* The stored text of a JSONField holding a list of strings: ["a", "b"]
json_dumps(items) == <<"[">> \o JoinJson(items) \o <<"]">>

(***************************************************************************)
(* Python values: None, str, int, float and decimal.Decimal.  A number is  *)
(* the fraction num/den with den > 0.                                      *)
(***************************************************************************)
Float(num, den) == [num |-> num, den |-> den]

Abs(n) == IF n < 0 THEN 0 - n ELSE n

RECURSIVE Gcd(_, _)
Gcd(a, b) == IF b = 0 THEN a ELSE Gcd(b, a % b)

\* The same fraction in lowest terms
Lowest(f) ==
    LET g == Gcd(Abs(f.num), f.den)
    IN  [num |-> f.num \div g, den |-> f.den \div g]

\* a == b and a <= b on numbers
FloatEq(a, b) == Lowest(a) = Lowest(b)
FloatLeq(a, b) == Lowest(a).num * Lowest(b).den <= Lowest(b).num * Lowest(a).den

PyNone == [type |-> "NoneType", text |-> <<>>, num |-> 0, den |-> 1]
PyStr(text) == [type |-> "str", text |-> text, num |-> 0, den |-> 1]
PyInt(n) == [type |-> "int", text |-> <<>>, num |-> n, den |-> 1]
PyFloat(num, den) == [type |-> "float", text |-> <<>>, num |-> num, den |-> den]
PyDecimal(num, den) == [type |-> "Decimal", text |-> <<>>, num |-> num, den |-> den]

\* The outcome of a call: a value, or an exception that left it
Returns(v) == [raised |-> "", value |-> v]
Raises(e) == [raised |-> e, value |-> Float(0, 1)]

Whitespace == {" "}

RECURSIVE lstrip(_)
lstrip(s) == IF s # <<>> /\ s[1] \in Whitespace THEN lstrip(Tail(s)) ELSE s

RECURSIVE rstrip(_)
rstrip(s) ==
    IF s # <<>> /\ s[Len(s)] \in Whitespace
    THEN rstrip(SubSeq(s, 1, Len(s) - 1)) ELSE s

\* str.strip()
strip(s) == rstrip(lstrip(s))

RECURSIVE replace(_, _, _)
\* str.replace(old, new) for a one-character old
replace(s, old, new) ==
    IF s = <<>> THEN <<>>
    ELSE (IF s[1] = old THEN new ELSE <<s[1]>>) \o replace(Tail(s), old, new)

\* float(text): surrounding whitespace is skipped, then an optional sign and
\* a decimal literal with at least one digit and at most one point; any
\* other text raises ValueError.  (Exponents, underscores, "inf" and "nan"
\* are float literals too; no text of the model has one.)
ParseFloat(text) ==
    LET s == strip(text)
        signed == s # <<>> /\ s[1] \in {"+", "-"}
        body == IF signed THEN Tail(s) ELSE s
        dots == {i \in 1..Len(body) : body[i] = "."}
        wellformed == /\ \A i \in 1..Len(body) : body[i] \in Digits \cup {"."}
                      /\ Cardinality(dots) <= 1
                      /\ \E i \in 1..Len(body) : body[i] \in Digits
        k == IF dots = {} THEN Len(body) + 1 ELSE CHOOSE i \in dots : TRUE
        whole == SubSeq(body, 1, k - 1)
        frac == SubSeq(body, k + 1, Len(body))
        mag == ParseInt(whole \o frac)
    IN  IF ~wellformed THEN Raises("ValueError")
        ELSE Returns(Float(IF signed /\ s[1] = "-" THEN 0 - mag ELSE mag,
                           10 ^ Len(frac)))

\* float(value)
float(v) ==
    CASE v.type = "str" -> ParseFloat(v.text)
      [] v.type \in {"int", "float", "Decimal"} -> Returns(Float(v.num, v.den))
      [] OTHER -> Raises("TypeError")

\* bool(value)
truthy(v) ==
    CASE v.type = "str" -> v.text # <<>>
      [] v.type \in {"int", "float", "Decimal"} -> v.num # 0
      [] OTHER -> FALSE

\* value or default
or_else(v, default) == IF truthy(v) THEN v ELSE default

(***************************************************************************)
(* Sample texts.                                                           *)
(***************************************************************************)
T_Robe == <<"R", "o", "b", "e">>
T_Robot == <<"r", "o", "b", "o", "t">>
T_ete == <<"e", "t", "e">>
T_bot == <<"b", "o", "t">>
T_rouge == <<"r", "g">>
T_M == <<"M">>

(***************************************************************************)
(* models.py                                                               *)
(***************************************************************************)
STATUS_CHOICES == {"verified", "unverified"}

CATEGORIE_CHOICES == {"tendances", "nouveautés", "populaire", "promotion", "chere"}

NomMaxLength == 200

\* A JSON value as a request may carry it: a list of strings or a bare string.
JsonList(items) == [kind |-> "list", items |-> items]
JsonStr(text) == [kind |-> "str", items |-> <<text>>]

\* isinstance(value, list)
is_list(v) == v.kind = "list"

\* optional values
None == <<>>
Some(v) == <<v>>

\* Field defaults of Produit (fields the model declares with default=...)
ProduitDefaults ==
    [status |-> "unverified", couleur |-> JsonList(<<>>), ancien_prix |-> None,
     likes |-> 0, reduction |-> 0, taille |-> JsonList(<<>>), quantite |-> 1]

\* Field defaults of Seller
SellerDefaults == [status |-> "unverified"]

\* Mutant: the discount added instead of taken off
prix_avec_reduction_Surcharge(self) ==
    LET prix == float(or_else(self.prix, PyFloat(0, 1)))
        reduction == float(or_else(self.reduction, PyFloat(0, 1)))
    IN  IF prix.raised # "" \/ reduction.raised # "" THEN Returns(Float(0, 1))
        ELSE Returns(Float(prix.value.num
                               * (100 * reduction.value.den + reduction.value.num),
                           prix.value.den * 100 * reduction.value.den))

\* Produit.prix_avec_reduction of an instance whose prix and reduction hold
\* Python values: prix * (1 - reduction / 100) as an exact fraction
prix_avec_reduction(self) ==
    LET prix == float(or_else(self.prix, PyFloat(0, 1)))
        reduction == float(or_else(self.reduction, PyFloat(0, 1)))
        caught == {"ValueError", "TypeError"}
    IN  IF prix.raised \in caught THEN Returns(Float(0, 1))
        ELSE IF prix.raised # "" THEN prix
        ELSE IF reduction.raised \in caught THEN Returns(Float(0, 1))
        ELSE IF reduction.raised # "" THEN reduction
        ELSE IF reduction.value.num > 0
        THEN Returns(Float(prix.value.num
                               * (100 * reduction.value.den - reduction.value.num),
                           prix.value.den * 100 * reduction.value.den))
        ELSE Returns(prix.value)

\* A stored row as the instance the ORM loads: DecimalField values
Loaded(row) == [prix |-> PyDecimal(row.prix, 1),
                reduction |-> PyDecimal(row.reduction, 1)]

(***************************************************************************)
(* admin.py: to_float                                                      *)
(***************************************************************************)
\* Mutant: the text branch without its exception handler
to_float_NoExcept(value) ==
    IF value.type = "NoneType" \/ value = PyStr(<<>>) THEN Returns(Float(0, 1))
    ELSE IF value.type \in {"float", "int", "Decimal"}
    THEN Returns(Float(value.num, value.den))
    ELSE ParseFloat(strip(replace(replace(value.text, "€", <<>>), ",", <<".">>)))

to_float(value) ==
    IF value.type = "NoneType" \/ value = PyStr(<<>>) THEN Returns(Float(0, 1))
    ELSE IF value.type \in {"float", "int"}
    THEN Returns(Float(value.num, value.den))
    ELSE IF value.type = "Decimal" THEN Returns(Float(value.num, value.den))
    ELSE LET cleaned == strip(replace(replace(value.text, "€", <<>>), ",", <<".">>))
             parsed == ParseFloat(cleaned)
         IN  IF parsed.raised # "" THEN Returns(Float(0, 1)) ELSE parsed

(***************************************************************************)
(* The store and the callers.                                              *)
(***************************************************************************)
World == [produits |-> produits, sellers |-> sellers,
          nextProduitId |-> nextProduitId, nextSellerId |-> nextSellerId,
          now |-> now]

Anonymous == [is_authenticated |-> FALSE, is_staff |-> FALSE]
Client == [is_authenticated |-> TRUE, is_staff |-> FALSE]
Staff == [is_authenticated |-> TRUE, is_staff |-> TRUE]

Callers == {Anonymous, Client, Staff}

\* The callers the requests of the model come from: the public views are
\* called anonymously, the management views and the admin site by a logged-in
\* client and by a staff member.
PublicCallers == {Anonymous}
ManagementCallers == {Client, Staff}

\* rest_framework.permissions.IsAdminUser; the public views declare
\* AllowAny, which admits every caller.

\* Mutant: the permission of an authenticated caller, staff or not
IsAdminUser_AsIsAuthenticated(caller) == caller.is_authenticated

IsAdminUser(caller) == caller.is_staff

(***************************************************************************)
(* serializers.py                                                          *)
(***************************************************************************)
\* Every key a product request body may carry in this model.  A key holds
\* None when the body does not carry it.
ProduitKeys == {"nom", "prix", "couleur", "categorie", "tags", "description",
                "seller", "ancien_prix", "reduction", "taille", "quantite",
                "status", "likes"}

\* ProduitCreateSerializer.Meta.fields (image_url, a file reference, is not
\* modelled)
ProduitCreateSerializer_fields ==
    {"nom", "prix", "couleur", "categorie", "tags", "description",
     "seller", "ancien_prix", "reduction", "taille", "quantite"}

\* Fields of ProduitCreateSerializer that are required on a full (non
\* partial) validation: model fields without default, blank or null.
ProduitRequired == {"nom", "prix", "categorie", "tags", "description", "seller"}

\* The per-field validation of the ModelSerializer (field types, choices,
\* the model's validators) for a key the body carries.
field_ok(w, f, v) ==
    CASE f = "nom" -> Len(v) >= 1 /\ Len(v) <= NomMaxLength
      [] f = "prix" -> v > -(10^8) /\ v < 10^8
      [] f = "categorie" -> v \in CATEGORIE_CHOICES
      [] f = "tags" -> Len(v) >= 1
      [] f = "description" -> Len(v) >= 1
      [] f = "seller" -> v \in DOMAIN w.sellers
      [] f = "ancien_prix" -> v > -(10^8) /\ v < 10^8
      [] f = "reduction" -> v >= 0 /\ v <= 100
      [] f = "quantite" -> v >= 0
      [] OTHER -> TRUE

\* Mutant: validate checking taille only
validate_TailleOnly(data) ==
    {f \in {"taille"} : data[f] # None /\ ~is_list(data[f][1])}

\* ProduitCreateSerializer.validate: data.get('couleur', []) and
\* data.get('taille', []) must be lists.
validate(data) ==
    {f \in {"couleur", "taille"} : data[f] # None /\ ~is_list(data[f][1])}

\* serializer.errors of ProduitCreateSerializer(data=body, partial=partial):
\* the set of fields in error (empty when is_valid()).
ProduitCreateSerializer_errors(w, body, partial) ==
    LET data == [f \in ProduitCreateSerializer_fields |-> body[f]]
        fieldErrors ==
            {f \in ProduitCreateSerializer_fields :
                \/ ~partial /\ f \in ProduitRequired /\ data[f] = None
                \/ data[f] # None /\ ~field_ok(w, f, data[f][1])}
    IN  IF fieldErrors # {} THEN fieldErrors ELSE validate(data)

\* Mutant: a serializer that also declares status
ProduitCreateSerializer_validated_WithStatus(body) ==
    [f \in ProduitCreateSerializer_fields \cup {"status"} |-> body[f]]

\* serializer.validated_data: the declared fields the body carries.
ProduitCreateSerializer_validated(body) ==
    [f \in ProduitCreateSerializer_fields |-> body[f]]

\* ProduitSerializer(...).data for one row
ProduitSerializer(w, id) ==
    LET row == w.produits[id]
    IN  [id |-> id, nom |-> row.nom, status |-> row.status, prix |-> row.prix,
         couleur |-> row.couleur, categorie |-> row.categorie,
         tags |-> row.tags, description |-> row.description,
         seller |-> row.seller, ancien_prix |-> row.ancien_prix,
         likes |-> row.likes, reduction |-> row.reduction,
         taille |-> row.taille, quantite |-> row.quantite,
         created_at |-> row.created_at, updated_at |-> row.updated_at,
         seller_info |-> [id |-> row.seller,
                          nom |-> w.sellers[row.seller].nom,
                          status |-> w.sellers[row.seller].status],
         prix_avec_reduction |-> prix_avec_reduction(Loaded(row)).value]

\* SellerSerializer(...).data for one row
SellerSerializer(w, id) ==
    LET row == w.sellers[id]
    IN  [id |-> id, user |-> row.user, nom |-> row.nom, status |-> row.status,
         total_produits |->
             Cardinality({p \in DOMAIN w.produits : w.produits[p].seller = id})]

\* A seller registration body holds the keys email, nom and status in this
\* model (numero, localisation and avis are free text carried unchanged,
\* start is set once at insertion and read by no view of the model: they are
\* not modelled).

\* SellerCreateSerializer.Meta.fields, with the nested user reduced to its
\* unique email
SellerCreateSerializer_fields == {"email", "nom"}

\* serializer.errors of SellerCreateSerializer(data=body)
SellerCreateSerializer_errors(w, body) ==
    {f \in SellerCreateSerializer_fields :
        \/ body[f] = None
        \/ f = "email" /\ \E s \in DOMAIN w.sellers : w.sellers[s].user = body[f][1]
        \/ f = "nom" /\ Len(body[f][1]) = 0}

(***************************************************************************)
(* views.py: responses, ordering, pagination                               *)
(***************************************************************************)
\* A request and its response: the view, the id or the selection it was
\* given, the HTTP status code, the count the body reports, the serialized
\* rows of the body and the keys of the body.
Response(op, id, sel, code, count, results, keys) ==
    [op |-> op, id |-> id, sel |-> sel, code |-> code, count |-> count,
     results |-> results, keys |-> keys]

Out(w, resp) == [w |-> w, resp |-> resp]

\* The body of the generic `except Exception` handler of every view
Error500(op, id) == Response(op, id, {}, 500, 0, <<>>, {"error", "details"})

\* The response DRF gives when the view's permission class refuses the
\* caller, before the view body runs
Forbidden(op, id) == Response(op, 0, {}, 403, 0, <<>>, {"detail"})

\* Position of a character in the collation (ASCII order of the sample
\* alphabet)
Alphabet == <<"\"", ",", "0", "1", "2", "3", "4", "5", "6", "7", "8", "9",
              "B", "E", "M", "R", "T", "[", "]",
              "a", "b", "c", "e", "g", "o", "r", "t", "x", "y", "z">>

CharCode(c) == CHOOSE i \in 1..Len(Alphabet) : Alphabet[i] = c

RECURSIVE TextLeq(_, _)
\* a <= b in the collation
TextLeq(a, b) ==
    IF a = <<>> THEN TRUE
    ELSE IF b = <<>> THEN FALSE
    ELSE IF a[1] = b[1] THEN TextLeq(Tail(a), Tail(b))
    ELSE CharCode(a[1]) < CharCode(b[1])

\* row a sorts no later than row b under order_by(ordre)
RowLeq(a, b, ordre) ==
    CASE ordre = "prix" -> a.prix <= b.prix
      [] ordre = "-prix" -> a.prix >= b.prix
      [] ordre = "nom" -> TextLeq(a.nom, b.nom)
      [] ordre = "-nom" -> TextLeq(b.nom, a.nom)
      [] ordre = "created_at" -> a.created_at <= b.created_at
      [] ordre = "-created_at" -> a.created_at >= b.created_at

RECURSIVE order_by(_, _, _)
\* queryset.order_by(ordre) over the rows whose ids are in S, as a sequence
\* of ids
order_by(w, S, ordre) ==
    IF S = {} THEN <<>>
    ELSE LET first == CHOOSE x \in S :
                 \A y \in S : RowLeq(w.produits[x], w.produits[y], ordre)
         IN  <<first>> \o order_by(w, S \ {first}, ordre)

\* StandardResultsSetPagination
page_size == 30
max_page_size == 100

\* PageNumberPagination.get_page_size: ?page_size=n when positive, cut off
\* at max_page_size, else the default
get_page_size(size) ==
    IF size # None /\ size[1] > 0 THEN Min(size[1], max_page_size)
    ELSE page_size

\* Paginator.num_pages (an empty first page is allowed)
num_pages(n, size) ==
    IF n = 0 THEN 1 ELSE (n + size - 1) \div size

\* paginator.paginate_queryset + get_paginated_response inside the view's
\* try block: an invalid page raises NotFound, which the view's
\* `except Exception` turns into its 500 body.
Paginated(op, id, w, ids, page, size) ==
    LET n == Len(ids)
        sz == get_page_size(size)
    IN  IF page < 1 \/ page > num_pages(n, sz) THEN Error500(op, id)
        ELSE Response(op, id, {}, 200, n,
                      [i \in 1..(Min(page * sz, n) - (page - 1) * sz) |->
                           ProduitSerializer(w, ids[(page - 1) * sz + i])],
                      {"count", "next", "previous", "results"})

\* Mutant: a query that also asks for a verified seller
Verified_SellerVerified(w) ==
    {p \in DOMAIN w.produits :
        /\ w.produits[p].status = "verified"
        /\ w.sellers[w.produits[p].seller].status = "verified"}

\* Mutant: the status filter left out of the query
Verified_NoFilter(w) == DOMAIN w.produits

\* Produit.objects.filter(status='verified')
Verified(w) == {p \in DOMAIN w.produits : w.produits[p].status = "verified"}

(***************************************************************************)
(* views.py: public catalog views                                          *)
(***************************************************************************)
\* Mutant: the listing filters on the other status
api_produits_Unverified(w, caller, page, size) ==
    Out(w, Paginated("api_produits", 0, w,
                     order_by(w, DOMAIN w.produits \ Verified(w), "-created_at"),
                     page, size))

\* GET /  (api_produits)
api_produits(w, caller, page, size) ==
    Out(w, Paginated("api_produits", 0, w,
                     order_by(w, Verified(w), "-created_at"), page, size))

\* The direct match of recherche_produits
\* Mutant: the direct match without the description
RechercheDirect_NomTags(w, text) ==
    {p \in DOMAIN w.produits :
        /\ w.produits[p].status = "verified"
        /\ \/ icontains(w.produits[p].nom, text)
           \/ icontains(w.produits[p].tags, text)}

RechercheDirect(w, text) ==
    {p \in Verified(w) :
        \/ icontains(w.produits[p].nom, text)
        \/ icontains(w.produits[p].tags, text)
        \/ icontains(w.produits[p].description, text)}

\* Mutant: the fallback without the tags
RecherchePrefix_NomOnly(w, text) ==
    {p \in DOMAIN w.produits :
        /\ w.produits[p].status = "verified"
        /\ istartswith(w.produits[p].nom, SubSeq(text, 1, 4))}

\* The fallback match of recherche_produits
RecherchePrefix(w, text) ==
    LET prefix == Prefix(text, 4)
    IN  {p \in Verified(w) :
            \/ istartswith(w.produits[p].nom, prefix)
            \/ icontains(w.produits[p].tags, prefix)}

\* GET /recherche/<text>/  (recherche_produits); the result is unordered in
\* the code beyond Meta.ordering = ['-created_at']
recherche_produits(w, caller, text) ==
    LET direct == RechercheDirect(w, text)
        found == IF direct = {} /\ Len(text) >= 4
                 THEN RecherchePrefix(w, text) ELSE direct
        ids == order_by(w, found, "-created_at")
    IN  Out(w, Response("recherche_produits", 0, {}, 200, Cardinality(found),
                        [i \in 1..Len(ids) |-> ProduitSerializer(w, ids[i])],
                        {"count", "results"}))

\* Mutant: the view without its check of the category name
produits_par_categorie_NoCheck(w, caller, nom_categorie, page, size) ==
    Out(w, Paginated("produits_par_categorie", 0, w,
             order_by(w, {p \in DOMAIN w.produits :
                             /\ w.produits[p].status = "verified"
                             /\ w.produits[p].categorie = nom_categorie},
                      "-created_at"),
             page, size))

\* GET /categorie/<nom_categorie>/  (produits_par_categorie); the 400 body
\* carries the valid category names (in sel)
produits_par_categorie(w, caller, nom_categorie, page, size) ==
    IF nom_categorie \notin CATEGORIE_CHOICES
    THEN Out(w, Response("produits_par_categorie", 0, CATEGORIE_CHOICES, 400,
                         0, <<>>, {"error", "categories_disponibles"}))
    ELSE Out(w, Paginated("produits_par_categorie", 0, w,
                 order_by(w, {p \in Verified(w) :
                                 w.produits[p].categorie = nom_categorie},
                          "-created_at"),
                 page, size))

\* Mutant: the lower price bound taken as exclusive
TrierFilter_ExclusiveMin(w, q) ==
    LET given(f) == q[f] # None /\ q[f][1] # <<>>
        bound(f) == ParseFloat(q[f][1])
    IN  {p \in DOMAIN w.produits :
            LET row == w.produits[p]
            IN  /\ row.status = "verified"
                /\ given("couleur") =>
                       icontains(json_dumps(row.couleur.items), q.couleur[1])
                /\ (given("prix_min") /\ bound("prix_min").raised = "") =>
                       ~FloatLeq(Float(row.prix, 1), bound("prix_min").value)
                /\ (given("prix_max") /\ bound("prix_max").raised = "") =>
                       FloatLeq(Float(row.prix, 1), bound("prix_max").value)
                /\ given("taille") =>
                       icontains(json_dumps(row.taille.items), q.taille[1])
                /\ (q.categorie # None /\ q.categorie[1] # "") =>
                       row.categorie = q.categorie[1]}

\* The query of trier_produits before ordering.  q holds the optional query
\* parameters couleur, prix_min, prix_max, taille, categorie; an empty
\* string is falsy and is skipped like an absent parameter (a categorie is
\* a name, the other parameters are texts).
TrierFilter(w, q) ==
    LET given(f) == q[f] # None /\ q[f][1] # <<>>
        bound(f) == ParseFloat(q[f][1])
    IN  {p \in Verified(w) :
            LET row == w.produits[p]
            IN  /\ given("couleur") =>
                       icontains(json_dumps(row.couleur.items), q.couleur[1])
                /\ (given("prix_min") /\ bound("prix_min").raised = "") =>
                       FloatLeq(bound("prix_min").value, Float(row.prix, 1))
                /\ (given("prix_max") /\ bound("prix_max").raised = "") =>
                       FloatLeq(Float(row.prix, 1), bound("prix_max").value)
                /\ given("taille") =>
                       icontains(json_dumps(row.taille.items), q.taille[1])
                /\ (q.categorie # None /\ q.categorie[1] # "") =>
                       row.categorie = q.categorie[1]}

OrdresPermis == {"prix", "-prix", "nom", "-nom", "created_at", "-created_at"}

\* Mutant: an ordre that is not allowed falls back to created_at ascending
trier_produits_FallbackAscending(w, caller, q, page, size) ==
    LET ordre == IF q.ordre = None THEN "-created_at" ELSE q.ordre[1]
        applied == IF ordre \in OrdresPermis THEN ordre ELSE "created_at"
    IN  Out(w, Paginated("trier_produits", 0, w,
                         order_by(w, TrierFilter(w, q), applied), page, size))

\* GET /trie/  (trier_produits)
trier_produits(w, caller, q, page, size) ==
    LET ordre == IF q.ordre = None THEN "-created_at" ELSE q.ordre[1]
        applied == IF ordre \in OrdresPermis THEN ordre ELSE "-created_at"
    IN  Out(w, Paginated("trier_produits", 0, w,
                         order_by(w, TrierFilter(w, q), applied), page, size))

\* [int(x) for x in exclus.split(',') if x.isdigit()] inside try/except:
\* when an int() raises, the bare except leaves ids_exclus empty
ids_exclus(exclus) ==
    IF exclus = <<>> THEN {}
    ELSE LET parts == Split(exclus, ",")
             kept == {j \in 1..Len(parts) : isdigit(parts[j])}
         IN  IF \E j \in kept : int(parts[j]).raised # ""
             THEN {}
             ELSE {int(parts[j]).value : j \in kept}

RefreshLimit == 30

\* The rows actualiser_produits draws from
ActualiserCandidates(w, exclus) == Verified(w) \ ids_exclus(exclus)

\* GET /actualiser/  (actualiser_produits); shuffle is the order that
\* order_by('?') produced, any permutation of the candidates
actualiser_produits(w, caller, exclus, shuffle) ==
    LET n == Min(Len(shuffle), RefreshLimit)
    IN  Out(w, Response("actualiser_produits", 0, {}, 200, n,
                        [i \in 1..n |-> ProduitSerializer(w, shuffle[i])],
                        {"count", "results"}))

\* The orders in which a set of ids can be drawn
Shuffles(S) ==
    {f \in [1..Cardinality(S) -> S] : \A x \in S : \E i \in DOMAIN f : f[i] = x}

\* GET /produit/<produit_id>/  (details_produit)
details_produit(w, caller, produit_id) ==
    IF produit_id \in Verified(w)
    THEN Out(w, Response("details_produit", produit_id, {}, 200, 1,
                         <<ProduitSerializer(w, produit_id)>>, {"produit"}))
    ELSE Out(w, Response("details_produit", produit_id, {}, 404, 0, <<>>,
                         {"error"}))

\* seller.produits
ProduitsOf(w, seller_id) ==
    {p \in DOMAIN w.produits : w.produits[p].seller = seller_id}

\* GET /sellerProduits/<id>/  (seller_produits)
seller_produits(w, caller, id, page, size) ==
    IF id \notin DOMAIN w.sellers
    THEN Out(w, Response("seller_produits", id, {}, 404, 0, <<>>, {"error"}))
    ELSE Out(w, Paginated("seller_produits", id, w,
                          order_by(w, ProduitsOf(w, id), "-created_at"),
                          page, size))

\* GET /seller/<seller_id>/produits/  (produits_seller)
produits_seller(w, caller, seller_id, page, size) ==
    IF seller_id \notin DOMAIN w.sellers
    THEN Out(w, Response("produits_seller", seller_id, {}, 404, 0, <<>>,
                         {"error"}))
    ELSE Out(w, Paginated("produits_seller", seller_id, w,
                          order_by(w, ProduitsOf(w, seller_id) \cap Verified(w),
                                   "-created_at"),
                          page, size))

\* GET /produits/  (liste_produits)
liste_produits(w, caller, page, size) ==
    Out(w, Paginated("liste_produits", 0, w,
                     order_by(w, DOMAIN w.produits, "-created_at"), page, size))

(***************************************************************************)
(* views.py: registration and management views                             *)
(***************************************************************************)
\* POST /auth/register/seller/  (register_seller)
register_seller(w, caller, body) ==
    IF SellerCreateSerializer_errors(w, body) # {}
    THEN Out(w, Response("register_seller", 0, {}, 400, 0, <<>>,
                         SellerCreateSerializer_errors(w, body)))
    ELSE LET id == w.nextSellerId
             row == [user |-> body.email[1], nom |-> body.nom[1],
                     status |-> SellerDefaults.status]
             w2 == [w EXCEPT !.sellers = (id :> row) @@ w.sellers,
                             !.nextSellerId = id + 1]
         IN  Out(w2, Response("register_seller", id, {}, 201, 1,
                              <<SellerSerializer(w2, id)>>, {"seller"}))

\* Produit.objects.create(**validated_data): the declared fields the body
\* carries, the model's defaults for the others, both timestamps set.
NewProduit(validated, t) ==
    LET val(f) == IF f \in DOMAIN validated /\ validated[f] # None
                  THEN validated[f][1] ELSE ProduitDefaults[f]
    IN  [nom |-> validated.nom[1], status |-> val("status"),
         prix |-> validated.prix[1], couleur |-> val("couleur"),
         categorie |-> validated.categorie[1], tags |-> validated.tags[1],
         description |-> validated.description[1],
         seller |-> validated.seller[1],
         ancien_prix |-> IF validated.ancien_prix = None THEN None
                         ELSE validated.ancien_prix,
         likes |-> val("likes"), reduction |-> val("reduction"),
         taille |-> val("taille"), quantite |-> val("quantite"),
         created_at |-> t, updated_at |-> t]

\* Mutant: a save that assigns created_at again
UpdatedProduit_ResetCreatedAt(row, validated, t) ==
    LET val(f) == IF f \in DOMAIN validated /\ validated[f] # None
                  THEN validated[f][1] ELSE row[f]
    IN  [nom |-> val("nom"), status |-> val("status"), prix |-> val("prix"),
         couleur |-> val("couleur"), categorie |-> val("categorie"),
         tags |-> val("tags"), description |-> val("description"),
         seller |-> val("seller"),
         ancien_prix |-> IF "ancien_prix" \in DOMAIN validated
                            /\ validated.ancien_prix # None
                         THEN validated.ancien_prix ELSE row.ancien_prix,
         likes |-> val("likes"), reduction |-> val("reduction"),
         taille |-> val("taille"), quantite |-> val("quantite"),
         created_at |-> t, updated_at |-> t]

\* serializer.save() on an existing instance: every validated field the body
\* carries is set on the instance, then instance.save() (auto_now).
UpdatedProduit(row, validated, t) ==
    LET val(f) == IF f \in DOMAIN validated /\ validated[f] # None
                  THEN validated[f][1] ELSE row[f]
    IN  [nom |-> val("nom"), status |-> val("status"), prix |-> val("prix"),
         couleur |-> val("couleur"), categorie |-> val("categorie"),
         tags |-> val("tags"), description |-> val("description"),
         seller |-> val("seller"),
         ancien_prix |-> IF "ancien_prix" \in DOMAIN validated
                            /\ validated.ancien_prix # None
                         THEN validated.ancien_prix ELSE row.ancien_prix,
         likes |-> val("likes"), reduction |-> val("reduction"),
         taille |-> val("taille"), quantite |-> val("quantite"),
         created_at |-> row.created_at, updated_at |-> t]

\* POST /produits/create/  (creer_produit)
creer_produit(w, caller, body) ==
    IF ~IsAdminUser(caller) THEN Out(w, Forbidden("creer_produit", 0))
    ELSE IF ProduitCreateSerializer_errors(w, body, FALSE) # {}
    THEN Out(w, Response("creer_produit", 0, {}, 400, 0, <<>>,
                         ProduitCreateSerializer_errors(w, body, FALSE)))
    ELSE LET id == w.nextProduitId
             row == NewProduit(ProduitCreateSerializer_validated(body),
                               w.now + 1)
             w2 == [w EXCEPT !.produits = (id :> row) @@ w.produits,
                             !.nextProduitId = id + 1,
                             !.now = w.now + 1]
         IN  Out(w2, Response("creer_produit", id, {}, 201, 1,
                              <<ProduitSerializer(w2, id)>>, {"produit"}))

\* PUT/PATCH /produits/<produit_id>/update/  (modifier_produit)
modifier_produit(w, caller, produit_id, body) ==
    IF ~IsAdminUser(caller) THEN Out(w, Forbidden("modifier_produit", produit_id))
    ELSE IF produit_id \notin DOMAIN w.produits
    THEN Out(w, Response("modifier_produit", produit_id, {}, 404, 0, <<>>,
                         {"error"}))
    ELSE IF ProduitCreateSerializer_errors(w, body, TRUE) # {}
    THEN Out(w, Response("modifier_produit", produit_id, {}, 400, 0, <<>>,
                         ProduitCreateSerializer_errors(w, body, TRUE)))
    ELSE LET row == UpdatedProduit(w.produits[produit_id],
                                   ProduitCreateSerializer_validated(body),
                                   w.now + 1)
             w2 == [w EXCEPT !.produits[produit_id] = row, !.now = w.now + 1]
         IN  Out(w2, Response("modifier_produit", produit_id, {}, 200, 1,
                              <<ProduitSerializer(w2, produit_id)>>,
                              {"produit"}))

\* DELETE /produits/<produit_id>/delete/  (supprimer_produit)
supprimer_produit(w, caller, produit_id) ==
    IF ~IsAdminUser(caller) THEN Out(w, Forbidden("supprimer_produit", produit_id))
    ELSE IF produit_id \notin DOMAIN w.produits
    THEN Out(w, Response("supprimer_produit", produit_id, {}, 404, 0, <<>>,
                         {"error"}))
    ELSE Out([w EXCEPT !.produits =
                  [p \in DOMAIN w.produits \ {produit_id} |-> w.produits[p]]],
             Response("supprimer_produit", produit_id, {}, 200, 0, <<>>,
                      {"message"}))

\* Mutant: verify refuses a product that is verified already
verifier_produit_RefuseVerified(w, caller, id) ==
    IF ~IsAdminUser(caller) THEN Out(w, Forbidden("verifier_produit", id))
    ELSE IF id \notin DOMAIN w.produits
    THEN Out(w, Response("verifier_produit", id, {}, 404, 0, <<>>, {"error"}))
    ELSE IF w.produits[id].status = "verified"
    THEN Out(w, Response("verifier_produit", id, {}, 409, 0, <<>>, {"error"}))
    ELSE LET w2 == [w EXCEPT !.produits[id].status = "verified",
                             !.produits[id].updated_at = w.now + 1,
                             !.now = w.now + 1]
         IN  Out(w2, Response("verifier_produit", id, {}, 200, 1,
                              <<ProduitSerializer(w2, id)>>,
                              {"message", "produit"}))

\* Mutant: verify toggles the status
verifier_produit_Toggle(w, caller, id) ==
    IF ~IsAdminUser(caller) THEN Out(w, Forbidden("verifier_produit", id))
    ELSE IF id \notin DOMAIN w.produits
    THEN Out(w, Response("verifier_produit", id, {}, 404, 0, <<>>, {"error"}))
    ELSE LET w2 == [w EXCEPT !.produits[id].status =
                                 IF @ = "verified" THEN "unverified"
                                 ELSE "verified",
                             !.produits[id].updated_at = w.now + 1,
                             !.now = w.now + 1]
         IN  Out(w2, Response("verifier_produit", id, {}, 200, 1,
                              <<ProduitSerializer(w2, id)>>,
                              {"message", "produit"}))

\* PUT/PATCH /verifier-produit/<id>/  (verifier_produit)
verifier_produit(w, caller, id) ==
    IF ~IsAdminUser(caller) THEN Out(w, Forbidden("verifier_produit", id))
    ELSE IF id \notin DOMAIN w.produits
    THEN Out(w, Response("verifier_produit", id, {}, 404, 0, <<>>, {"error"}))
    ELSE LET w2 == [w EXCEPT !.produits[id].status = "verified",
                             !.produits[id].updated_at = w.now + 1,
                             !.now = w.now + 1]
         IN  Out(w2, Response("verifier_produit", id, {}, 200, 1,
                              <<ProduitSerializer(w2, id)>>,
                              {"message", "produit"}))

\* Mutant: an update by filter, which succeeds when no row matches
verifier_seller_NoLookup(w, caller, seller_id) ==
    IF ~IsAdminUser(caller) THEN Out(w, Forbidden("verifier_seller", seller_id))
    ELSE LET w2 == [w EXCEPT !.sellers =
                        [s \in DOMAIN w.sellers |->
                            IF s = seller_id
                            THEN [w.sellers[s] EXCEPT !.status = "verified"]
                            ELSE w.sellers[s]]]
         IN  Out(w2, Response("verifier_seller", seller_id, {}, 200, 1,
                              [i \in 1..Cardinality({seller_id} \cap DOMAIN w.sellers)
                                  |-> SellerSerializer(w2, seller_id)],
                              {"message", "seller"}))

\* PUT/PATCH /sellers/<seller_id>/verify/  (verifier_seller); Seller has no
\* auto_now field, so save() assigns no timestamp
verifier_seller(w, caller, seller_id) ==
    IF ~IsAdminUser(caller) THEN Out(w, Forbidden("verifier_seller", seller_id))
    ELSE IF seller_id \notin DOMAIN w.sellers
    THEN Out(w, Response("verifier_seller", seller_id, {}, 404, 0, <<>>,
                         {"error"}))
    ELSE LET w2 == [w EXCEPT !.sellers[seller_id].status = "verified"]
         IN  Out(w2, Response("verifier_seller", seller_id, {}, 200, 1,
                              <<SellerSerializer(w2, seller_id)>>,
                              {"message", "seller"}))

\* The count queries of statistiques_dashboard, in the order the view runs
\* them
StatsKeys == <<"total_produits", "produits_verifies", "produits_non_verifies",
               "total_sellers", "sellers_verifies", "sellers_non_verifies">>

StatsQuery(w, k) ==
    CASE k = 1 -> Cardinality(DOMAIN w.produits)
      [] k = 2 -> Cardinality({p \in DOMAIN w.produits :
                                  w.produits[p].status = "verified"})
      [] k = 3 -> Cardinality({p \in DOMAIN w.produits :
                                  w.produits[p].status = "unverified"})
      [] k = 4 -> Cardinality(DOMAIN w.sellers)
      [] k = 5 -> Cardinality({x \in DOMAIN w.sellers :
                                  w.sellers[x].status = "verified"})
      [] k = 6 -> Cardinality({x \in DOMAIN w.sellers :
                                  w.sellers[x].status = "unverified"})

\* GET /stats/  (statistiques_dashboard) served with no write in between
statistiques_dashboard(w, caller) ==
    IF ~IsAdminUser(caller) THEN Out(w, Forbidden("statistiques_dashboard", 0))
    ELSE Out(w, Response("statistiques_dashboard", 0, {}, 200, 0,
                         <<[k \in 1..Len(StatsKeys) |-> StatsQuery(w, k)]>>,
                         {StatsKeys[k] : k \in 1..Len(StatsKeys)}
                             \cup {"total_clients", "produits_par_categorie"}))

(***************************************************************************)
(* admin.py: bulk actions.  The selection is the queryset the admin site   *)
(* builds from the checked rows: a set of existing ids.  The admin site    *)
(* serves staff only; anybody else is redirected to its login page.        *)
(***************************************************************************)
AdminRedirect(op, sel) == Response(op, 0, {}, 302, 0, <<>>, {})

\* queryset.update(status=value) on api_seller: every selected row is
\* written, the number of rows matched is returned
SellerAdmin_update(w, caller, op, sel, value) ==
    IF ~caller.is_staff THEN Out(w, AdminRedirect(op, sel))
    ELSE Out([w EXCEPT !.sellers =
                  [s \in DOMAIN w.sellers |->
                      IF s \in sel THEN [w.sellers[s] EXCEPT !.status = value]
                      ELSE w.sellers[s]]],
             Response(op, 0, sel, 200, Cardinality(sel \cap DOMAIN w.sellers),
                      <<>>, {"message"}))

verifier_sellers(w, caller, sel) ==
    SellerAdmin_update(w, caller, "verifier_sellers", sel, "verified")

desactiver_sellers(w, caller, sel) ==
    SellerAdmin_update(w, caller, "desactiver_sellers", sel, "unverified")

\* Mutant: the count of the rows whose status changed
ProduitAdmin_update_CountChanged(w, caller, op, sel, value) ==
    IF ~caller.is_staff THEN Out(w, AdminRedirect(op, sel))
    ELSE Out([w EXCEPT !.produits =
                  [p \in DOMAIN w.produits |->
                      IF p \in sel THEN [w.produits[p] EXCEPT !.status = value]
                      ELSE w.produits[p]]],
             Response(op, 0, sel, 200,
                      Cardinality({p \in sel \cap DOMAIN w.produits :
                                      w.produits[p].status # value}),
                      <<>>, {"message"}))

\* queryset.update(status=value) on api_produit (update() bypasses save(),
\* so updated_at is not touched)
ProduitAdmin_update(w, caller, op, sel, value) ==
    IF ~caller.is_staff THEN Out(w, AdminRedirect(op, sel))
    ELSE Out([w EXCEPT !.produits =
                  [p \in DOMAIN w.produits |->
                      IF p \in sel THEN [w.produits[p] EXCEPT !.status = value]
                      ELSE w.produits[p]]],
             Response(op, 0, sel, 200, Cardinality(sel \cap DOMAIN w.produits),
                      <<>>, {"message"}))

verifier_produits(w, caller, sel) ==
    ProduitAdmin_update(w, caller, "verifier_produits", sel, "verified")

desactiver_produits(w, caller, sel) ==
    ProduitAdmin_update(w, caller, "desactiver_produits", sel, "unverified")

\* Mutant: the test left out
PromotionApplies_Always(row) == TRUE

\* Mutant: the test compares with the promotion's discount
PromotionApplies_UpTo20(row) == row.reduction <= 20

\* The test of appliquer_promotion: only a product not yet in promotion
PromotionApplies(row) == row.reduction = 0

RECURSIVE PromotionLoop(_, _, _)
\* The loop of appliquer_promotion over the queryset (a sequence of ids, in
\* Meta.ordering); acc holds the store and the count so far
PromotionLoop(w, ids, updated) ==
    IF ids = <<>> THEN [w |-> w, updated |-> updated]
    ELSE LET p == ids[1]
         IN  IF PromotionApplies(w.produits[p])
             THEN PromotionLoop(
                      [w EXCEPT !.produits[p].ancien_prix = Some(w.produits[p].prix),
                                !.produits[p].reduction = 20,
                                !.produits[p].categorie = "promotion",
                                !.produits[p].updated_at = w.now + 1,
                                !.now = w.now + 1],
                      Tail(ids), updated + 1)
             ELSE PromotionLoop(w, Tail(ids), updated)

\* ProduitAdmin.appliquer_promotion
appliquer_promotion(w, caller, sel) ==
    IF ~caller.is_staff THEN Out(w, AdminRedirect("appliquer_promotion", sel))
    ELSE LET done == PromotionLoop(w, order_by(w, sel, "-created_at"), 0)
         IN  Out(done.w, Response("appliquer_promotion", 0, sel, 200,
                                  done.updated, <<>>, {"message"}))

(***************************************************************************)
(* Requests of the model.                                                  *)
(***************************************************************************)
EmptyBody == [k \in ProduitKeys |-> None]

T_robex == <<"r", "o", "b", "e", "x">>
T_abc == <<"a", "b", "c">>
T_50 == <<"5", "0">>
T_1x == <<"1", ",", "x">>

\* A complete product body for seller s; it also carries a status, a key
\* the serializer does not declare
BodyRobe(s) ==
    [nom |-> Some(T_Robe), prix |-> Some(100), categorie |-> Some("tendances"),
     tags |-> Some(T_ete), description |-> Some(T_Robot), seller |-> Some(s),
     couleur |-> Some(JsonList(<<T_rouge>>)), taille |-> Some(JsonList(<<T_M>>)),
     status |-> Some("verified")] @@ EmptyBody

\* A complete body with a discount and the optional keys left out
BodyRobot(s) ==
    [nom |-> Some(T_Robot), prix |-> Some(40), categorie |-> Some("populaire"),
     tags |-> Some(T_Robot), description |-> Some(T_ete), seller |-> Some(s),
     reduction |-> Some(50)] @@ EmptyBody

CreerBodies ==
    {BodyRobe(1),
     BodyRobot(2),
     [status |-> Some("rejected")] @@ BodyRobot(1),
     [reduction |-> Some(150)] @@ BodyRobot(1),
     [couleur |-> Some(JsonStr(T_rouge))] @@ BodyRobe(1)}

ModifierBodies ==
    {[prix |-> Some(30)] @@ EmptyBody,
     [status |-> Some("verified"), reduction |-> Some(0)] @@ EmptyBody,
     [taille |-> Some(JsonStr(T_M))] @@ EmptyBody,
     [reduction |-> Some(0 - 5)] @@ EmptyBody,
     [prix |-> Some(30), status |-> Some("verified"), likes |-> Some(5)]
         @@ EmptyBody}

\* User.email is unique: there are as many sellers as emails at most
Emails == {"a@pinshop", "b@pinshop"}

SellerBodies ==
    {[email |-> Some("a@pinshop"), nom |-> Some(T_bot), status |-> None],
     [email |-> Some("b@pinshop"), nom |-> Some(T_Robe),
      status |-> Some("verified")]}

\* Query strings of trier_produits
EmptyQuery == [k \in {"couleur", "prix_min", "prix_max", "taille",
                      "categorie", "ordre"} |-> None]

T_40 == <<"4", "0">>
T_41 == <<"4", "1">>
T_100 == <<"1", "0", "0">>
T_99_5 == <<"9", "9", ".", "5">>

\* Filters without an ordre
TrierFilters ==
    {EmptyQuery,
     [prix_min |-> Some(T_abc)] @@ EmptyQuery,
     [prix_min |-> Some(T_40), prix_max |-> Some(T_100)] @@ EmptyQuery,
     [prix_min |-> Some(T_50), couleur |-> Some(T_rouge)] @@ EmptyQuery,
     [prix_min |-> Some(T_41), prix_max |-> Some(T_abc)] @@ EmptyQuery,
     [prix_max |-> Some(T_99_5), couleur |-> Some(<<>>)] @@ EmptyQuery,
     [taille |-> Some(T_M), categorie |-> Some("tendances")] @@ EmptyQuery}

\* Values of ?ordre=
OrdreValues == OrdresPermis \cup {"malicious_field", ""}

TrierQueries ==
    TrierFilters
    \cup {[ordre |-> Some(o)] @@ EmptyQuery : o \in OrdreValues}
    \cup {[prix_min |-> Some(T_abc), ordre |-> Some("malicious_field")] @@ EmptyQuery,
          [prix_min |-> Some(T_50), couleur |-> Some(T_rouge),
           ordre |-> Some("prix")] @@ EmptyQuery}

T_obotx == <<"o", "b", "o", "t", "x">>
T_xy == <<"x", "y">>

SearchTexts == {T_bot, T_robex, T_obotx, T_xy}

\* ?page=n&page_size=m
Pages == {<<1, None>>, <<2, None>>, <<1, Some(1)>>, <<2, Some(1)>>}

Categories == CATEGORIE_CHOICES \cup {"soldes"}

T_1_sup2 == <<"1", ",", "²">>

ExclusTexts == {<<>>, T_1x, <<"2">>, T_1_sup2}

\* Field values of an instance in memory: validated decimals, and what
\* unvalidated data can hold
T_12_50_euro == <<"1", "2", ",", "5", "0", " ", "€">>
T_7 == <<" ", "7", " ">>
T_1_2_3 == <<"1", ".", "2", ".", "3">>
T_euro == <<"€">>

PrixValues == {PyDecimal(0, 1), PyDecimal(40, 1), PyDecimal(100, 1), PyDecimal(1250, 100)}

ReductionValues == {PyDecimal(0, 1), PyDecimal(1, 100), PyDecimal(20, 1),
                    PyDecimal(1250, 100), PyDecimal(50, 1), PyDecimal(100, 1)}

RawValues ==
    PrixValues \cup ReductionValues \cup
    {PyNone, PyStr(<<>>), PyInt(5), PyInt(0 - 5), PyFloat(75, 10), PyDecimal(150, 1),
     PyStr(T_12_50_euro), PyStr(T_abc), PyStr(T_7), PyStr(T_1_2_3), PyStr(T_euro)}

\* The ids the requests name: every id ever assigned and one never assigned
ProduitIds == 1..nextProduitId
SellerIds == 1..nextSellerId

(***************************************************************************)
(* The state machine.                                                      *)
(***************************************************************************)
NoCall == [fn |-> "", arg |-> PyNone, out |-> Returns(Float(0, 1))]

Init ==
    /\ produits = <<>>
    /\ sellers = <<>>
    /\ nextProduitId = 1
    /\ nextSellerId = 1
    /\ now = 0
    /\ instance = [prix |-> PyNone, reduction |-> PyInt(0)]
    /\ returned = NoCall
    /\ requests = <<>>

\* The store takes the outcome of a view (its response goes to the caller);
\* the bound of the model caps the timestamps assigned.
Apply(out) ==
    /\ out.w.now <= MaxClock
    /\ produits' = out.w.produits
    /\ sellers' = out.w.sellers
    /\ nextProduitId' = out.w.nextProduitId
    /\ nextSellerId' = out.w.nextSellerId
    /\ now' = out.w.now
    /\ UNCHANGED <<instance, returned, requests>>

ApiProduits ==
    \E c \in PublicCallers, pg \in Pages : Apply(api_produits(World, c, pg[1], pg[2]))

RechercheProduits ==
    \E c \in PublicCallers, text \in SearchTexts :
        Apply(recherche_produits(World, c, text))

ProduitsParCategorie ==
    \E c \in PublicCallers, cat \in Categories :
        Apply(produits_par_categorie(World, c, cat, 1, None))

TrierProduits ==
    \E c \in PublicCallers, q \in TrierQueries :
        Apply(trier_produits(World, c, q, 1, None))

ActualiserProduits ==
    \E c \in PublicCallers, exclus \in ExclusTexts :
        \E shuffle \in Shuffles(ActualiserCandidates(World, exclus)) :
            Apply(actualiser_produits(World, c, exclus, shuffle))

DetailsProduit ==
    \E c \in PublicCallers, id \in ProduitIds : Apply(details_produit(World, c, id))

SellerProduits ==
    \E c \in PublicCallers, id \in SellerIds :
        Apply(seller_produits(World, c, id, 1, None))

ProduitsSeller ==
    \E c \in PublicCallers, id \in SellerIds :
        Apply(produits_seller(World, c, id, 1, None))

ListeProduits ==
    \E c \in PublicCallers : Apply(liste_produits(World, c, 1, None))

RegisterSeller ==
    \E c \in PublicCallers, body \in SellerBodies : Apply(register_seller(World, c, body))

CreerProduit ==
    \E c \in ManagementCallers, body \in CreerBodies : Apply(creer_produit(World, c, body))

ModifierProduit ==
    \E c \in ManagementCallers, id \in ProduitIds, body \in ModifierBodies :
        Apply(modifier_produit(World, c, id, body))

SupprimerProduit ==
    \E c \in ManagementCallers, id \in ProduitIds : Apply(supprimer_produit(World, c, id))

VerifierProduit ==
    \E c \in ManagementCallers, id \in ProduitIds : Apply(verifier_produit(World, c, id))

VerifierSeller ==
    \E c \in ManagementCallers, id \in SellerIds : Apply(verifier_seller(World, c, id))

VerifierSellers ==
    \E c \in ManagementCallers, sel \in SUBSET DOMAIN sellers :
        Apply(verifier_sellers(World, c, sel))

DesactiverSellers ==
    \E c \in ManagementCallers, sel \in SUBSET DOMAIN sellers :
        Apply(desactiver_sellers(World, c, sel))

VerifierProduits ==
    \E c \in ManagementCallers, sel \in SUBSET DOMAIN produits :
        Apply(verifier_produits(World, c, sel))

DesactiverProduits ==
    \E c \in ManagementCallers, sel \in SUBSET DOMAIN produits :
        Apply(desactiver_produits(World, c, sel))

AppliquerPromotion ==
    \E c \in ManagementCallers, sel \in SUBSET DOMAIN produits :
        Apply(appliquer_promotion(World, c, sel))

StatistiquesDashboard ==
    \E c \in ManagementCallers : Apply(statistiques_dashboard(World, c))

Next ==
    \/ ApiProduits
    \/ RechercheProduits
    \/ ProduitsParCategorie
    \/ TrierProduits
    \/ ActualiserProduits
    \/ DetailsProduit
    \/ SellerProduits
    \/ ProduitsSeller
    \/ ListeProduits
    \/ RegisterSeller
    \/ CreerProduit
    \/ ModifierProduit
    \/ SupprimerProduit
    \/ VerifierProduit
    \/ VerifierSeller
    \/ VerifierSellers
    \/ DesactiverSellers
    \/ VerifierProduits
    \/ DesactiverProduits
    \/ AppliquerPromotion
    \/ StatistiquesDashboard

Spec == Init /\ [][Next]_vars

(***************************************************************************)
(* The pricing functions on an instance in memory: prix and reduction hold *)
(* any of the field values, and the calls are applied to them.             *)
(***************************************************************************)
InitPricing ==
    /\ produits = <<>>
    /\ sellers = <<>>
    /\ nextProduitId = 1
    /\ nextSellerId = 1
    /\ now = 0
    /\ instance \in [prix : RawValues, reduction : RawValues]
    /\ returned = NoCall
    /\ requests = <<>>

ToFloat ==
    /\ \E f \in {"prix", "reduction"} :
           returned' = [fn |-> "to_float", arg |-> instance[f],
                        out |-> to_float(instance[f])]
    /\ UNCHANGED <<produits, sellers, nextProduitId, nextSellerId, now, instance,
                   requests>>

PrixAvecReduction ==
    /\ returned' = [fn |-> "prix_avec_reduction", arg |-> PyNone,
                    out |-> prix_avec_reduction(instance)]
    /\ UNCHANGED <<produits, sellers, nextProduitId, nextSellerId, now, instance,
                   requests>>

NextPricing ==
    \/ ToFloat
    \/ PrixAvecReduction

SpecPricing == InitPricing /\ [][NextPricing]_vars

(***************************************************************************)
(* Properties.  A property of a view is stated of the view applied to the  *)
(* store of every reachable state, for every caller and request of the     *)
(* model.                                                                  *)
(***************************************************************************)
\* The rows a response carries are all verified
OnlyVerified(out) ==
    \A i \in DOMAIN out.resp.results : out.resp.results[i].status = "verified"

\* The ids of the rows a response carries
ResultIds(out) == {out.resp.results[i].id : i \in DOMAIN out.resp.results}

\* C1: every product returned by api_produits, recherche_produits (direct
\* match and prefix fallback), produits_par_categorie, trier_produits,
\* actualiser_produits, details_produit and produits_seller has status
\* 'verified', for every caller and every combination of query parameters.
C1_PublicViewsOnlyVerified ==
    \A c \in Callers :
        /\ \A pg \in Pages : OnlyVerified(api_produits(World, c, pg[1], pg[2]))
        /\ \A text \in SearchTexts : OnlyVerified(recherche_produits(World, c, text))
        /\ \A cat \in Categories, pg \in Pages :
               OnlyVerified(produits_par_categorie(World, c, cat, pg[1], pg[2]))
        /\ \A q \in TrierQueries, pg \in Pages :
               OnlyVerified(trier_produits(World, c, q, pg[1], pg[2]))
        /\ \A exclus \in ExclusTexts :
               \A shuffle \in Shuffles(ActualiserCandidates(World, exclus)) :
                   OnlyVerified(actualiser_produits(World, c, exclus, shuffle))
        /\ \A id \in ProduitIds : OnlyVerified(details_produit(World, c, id))
        /\ \A id \in SellerIds, pg \in Pages :
               OnlyVerified(produits_seller(World, c, id, pg[1], pg[2]))

\* C1 witness: a verified and an unverified product are in the store, and
\* the search answers through its prefix fallback with a product.
C1_Witness ==
    /\ \E p \in DOMAIN produits : produits[p].status = "unverified"
    /\ RechercheDirect(World, T_robex) = {}
    /\ recherche_produits(World, Anonymous, T_robex).resp.count >= 1
    /\ api_produits(World, Anonymous, 1, None).resp.count >= 1

\* C2 (as claimed): every view open to unauthenticated callers that returns
\* products, liste_produits and seller_produits included, returns verified
\* products only.
C2_UnauthenticatedListingsOnlyVerified ==
    /\ \A pg \in Pages : OnlyVerified(liste_produits(World, Anonymous, pg[1], pg[2]))
    /\ \A id \in SellerIds, pg \in Pages :
           OnlyVerified(seller_produits(World, Anonymous, id, pg[1], pg[2]))

\* The public catalog listing of a store: the ids api_produits returns to
\* an anonymous caller, over the pages of the default page size
CatalogOf(w) ==
    UNION {ResultIds(api_produits(w, Anonymous, page, None)) : page \in 1..2}

Catalog == CatalogOf(World)

\* The complete bodies staff may post to creer_produit
ValidBodies == {b \in CreerBodies : ProduitCreateSerializer_errors(World, b, FALSE) = {}}

\* C3: a product is absent from the public catalog listing in every state in
\* which it is not verified; the product creer_produit creates under a
\* registered seller is not listed; and when staff verifies a product whose
\* seller is already verified, the listing includes the product.
C3_Lifecycle ==
    /\ \A p \in DOMAIN produits :
           produits[p].status # "verified" => p \notin Catalog
    /\ \A body \in ValidBodies :
           LET out == creer_produit(World, Staff, body)
           IN  /\ out.resp.code = 201
               /\ out.resp.id \in DOMAIN out.w.produits \ DOMAIN produits
               /\ out.resp.id \notin CatalogOf(out.w)
    /\ \A id \in DOMAIN produits :
           sellers[produits[id].seller].status = "verified" =>
               id \in CatalogOf(verifier_produit(World, Staff, id).w)

\* C3 witness: the lifecycle has run: a seller and its product are verified,
\* the product was saved after its creation, and the listing shows it.
C3_Witness ==
    \E p \in DOMAIN produits :
        /\ sellers[produits[p].seller].status = "verified"
        /\ produits[p].status = "verified"
        /\ produits[p].updated_at > produits[p].created_at
        /\ p \in Catalog

\* The callers the management views must refuse
NonStaff == {c \in Callers : ~c.is_staff}

\* A refusal: an authentication or permission error, and the store as it was
Refused(out) == out.resp.code \in {401, 403} /\ out.w = World

\* C4: creer_produit, modifier_produit, supprimer_produit, verifier_produit
\* and verifier_seller refuse every caller who is not staff and leave every
\* product and seller record unchanged.
C4_AdminOnly ==
    \A c \in NonStaff :
        /\ \A body \in CreerBodies : Refused(creer_produit(World, c, body))
        /\ \A id \in ProduitIds, body \in ModifierBodies :
               Refused(modifier_produit(World, c, id, body))
        /\ \A id \in ProduitIds : Refused(supprimer_produit(World, c, id))
        /\ \A id \in ProduitIds : Refused(verifier_produit(World, c, id))
        /\ \A id \in SellerIds : Refused(verifier_seller(World, c, id))

\* C4 witness: requests that staff would be served (an unverified product to
\* verify, update and delete, an unverified seller to verify, a valid body to
\* create from) are refused to a logged-in client.
C4_Witness ==
    \E p \in DOMAIN produits, s \in DOMAIN sellers :
        /\ produits[p].status = "unverified"
        /\ sellers[s].status = "unverified"
        /\ creer_produit(World, Staff, BodyRobe(1)).resp.code = 201
        /\ creer_produit(World, Client, BodyRobe(1)).resp.code = 403
        /\ verifier_produit(World, Client, p).resp.code = 403
        /\ verifier_seller(World, Client, s).resp.code = 403

\* C5: every product and every seller has status 'verified' or 'unverified';
\* a product created by creer_produit and a seller created by
\* register_seller start 'unverified' whatever status the body carries; and
\* from either status verify leads to 'verified' and deactivate to
\* 'unverified'.
C5_TwoStateMachine ==
    /\ \A p \in DOMAIN produits : produits[p].status \in STATUS_CHOICES
    /\ \A s \in DOMAIN sellers : sellers[s].status \in STATUS_CHOICES
    /\ \A body \in CreerBodies :
           LET out == creer_produit(World, Staff, body)
           IN  out.resp.code = 201 =>
                   out.w.produits[out.resp.id].status = "unverified"
    /\ \A c \in Callers, body \in SellerBodies :
           LET out == register_seller(World, c, body)
           IN  out.resp.code = 201 =>
                   out.w.sellers[out.resp.id].status = "unverified"
    /\ \A p \in DOMAIN produits :
           /\ verifier_produit(World, Staff, p).resp.code = 200
           /\ verifier_produit(World, Staff, p).w.produits[p].status = "verified"
           /\ verifier_produits(World, Staff, {p}).w.produits[p].status = "verified"
           /\ desactiver_produits(World, Staff, {p}).w.produits[p].status = "unverified"
    /\ \A s \in DOMAIN sellers :
           /\ verifier_seller(World, Staff, s).resp.code = 200
           /\ verifier_seller(World, Staff, s).w.sellers[s].status = "verified"
           /\ verifier_sellers(World, Staff, {s}).w.sellers[s].status = "verified"
           /\ desactiver_sellers(World, Staff, {s}).w.sellers[s].status = "unverified"

\* C5 witness: a product and a seller whose bodies carried status 'verified'
\* are stored unverified, beside a verified product and a verified seller.
C5_Witness ==
    /\ \E p \in DOMAIN produits :
           produits[p].nom = T_Robe /\ produits[p].status = "unverified"
    /\ \E p \in DOMAIN produits : produits[p].status = "verified"
    /\ \E s \in DOMAIN sellers :
           sellers[s].user = "b@pinshop" /\ sellers[s].status = "unverified"
    /\ \E s \in DOMAIN sellers : sellers[s].status = "verified"

\* The product table without the auto_now column updated_at
WithoutUpdatedAt(table) ==
    [p \in DOMAIN table |-> [table[p] EXCEPT !.updated_at = 0]]

\* C6 (as claimed): verify on an already verified product or seller returns
\* success and leaves a state identical to the state before it; verify
\* applied twice leaves the state that verify applied once leaves.
C6_VerifyLeavesIdenticalState ==
    /\ \A p \in DOMAIN produits :
           LET once == verifier_produit(World, Staff, p)
               twice == verifier_produit(once.w, Staff, p)
           IN  /\ twice.resp.code = 200
               /\ twice.w.produits = once.w.produits
               /\ twice.w.sellers = once.w.sellers
    /\ \A s \in DOMAIN sellers :
           LET once == verifier_seller(World, Staff, s)
               twice == verifier_seller(once.w, Staff, s)
           IN  /\ twice.resp.code = 200
               /\ twice.w.produits = once.w.produits
               /\ twice.w.sellers = once.w.sellers

\* C6 (amended): verify applied a second time returns success, leaves the
\* status 'verified' and leaves every product and seller as the first verify
\* left it, except the updated_at of the verified product, which every
\* verifier_produit advances; verifier_seller applied twice leaves exactly
\* the state it leaves applied once.
C6_VerifyIdempotent ==
    /\ \A p \in DOMAIN produits :
           LET once == verifier_produit(World, Staff, p)
               twice == verifier_produit(once.w, Staff, p)
           IN  /\ once.resp.code = 200 /\ twice.resp.code = 200
               /\ twice.w.produits[p].status = "verified"
               /\ twice.resp.results[1].status = "verified"
               /\ WithoutUpdatedAt(twice.w.produits) = WithoutUpdatedAt(once.w.produits)
               /\ \A q \in DOMAIN produits \ {p} :
                      twice.w.produits[q] = once.w.produits[q]
               /\ twice.w.produits[p].updated_at > once.w.produits[p].updated_at
               /\ twice.w.sellers = once.w.sellers
    /\ \A s \in DOMAIN sellers :
           LET once == verifier_seller(World, Staff, s)
               twice == verifier_seller(once.w, Staff, s)
           IN  /\ once.resp.code = 200 /\ twice.resp.code = 200
               /\ twice.w.sellers[s].status = "verified"
               /\ twice.w = once.w
               /\ twice.resp = once.resp

\* C6 witness: a product that was verified by a save after its creation and
\* a verified seller are in the store: the next verify of either is a second
\* verify.
C6_Witness ==
    /\ \E p \in DOMAIN produits :
           /\ produits[p].status = "verified"
           /\ produits[p].updated_at > produits[p].created_at
           /\ verifier_produit(World, Staff, p).resp.code = 200
    /\ \E s \in DOMAIN sellers :
           /\ sellers[s].status = "verified"
           /\ verifier_seller(World, Staff, s).w = World

\* C7: verify on an id that matches no product (no seller) returns 404 and
\* leaves every product and seller unchanged; verify on an existing id
\* returns the updated entity, with status 'verified'.
C7_VerifyNotFound ==
    /\ \A id \in ProduitIds :
           LET out == verifier_produit(World, Staff, id)
           IN  IF id \in DOMAIN produits
               THEN /\ out.resp.code = 200
                    /\ out.resp.results = <<ProduitSerializer(out.w, id)>>
                    /\ out.resp.results[1].id = id
                    /\ out.resp.results[1].status = "verified"
               ELSE /\ out.resp.code = 404
                    /\ out.resp.results = <<>>
                    /\ out.w = World
    /\ \A id \in SellerIds :
           LET out == verifier_seller(World, Staff, id)
           IN  IF id \in DOMAIN sellers
               THEN /\ out.resp.code = 200
                    /\ out.resp.results = <<SellerSerializer(out.w, id)>>
                    /\ out.resp.results[1].id = id
                    /\ out.resp.results[1].status = "verified"
               ELSE /\ out.resp.code = 404
                    /\ out.resp.results = <<>>
                    /\ out.w = World

\* C7 witness: the id of a deleted product and the id of an unverified
\* product are both there to verify, with products and sellers in the store.
C7_Witness ==
    /\ \E id \in 1..(nextProduitId - 1) :
           /\ id \notin DOMAIN produits
           /\ verifier_produit(World, Staff, id).resp.code = 404
    /\ \E id \in DOMAIN produits :
           /\ produits[id].status = "unverified"
           /\ verifier_produit(World, Staff, id).resp.code = 200
    /\ verifier_seller(World, Staff, nextSellerId).resp.code = 404
    /\ DOMAIN sellers # {}

\* A bulk status update of products did what C8 says: every selected row
\* has the target status and is otherwise as it was, every other row is as it
\* was, sellers are untouched and the count is the size of the selection.
BulkProduitsOk(out, sel, value) ==
    /\ out.resp.code = 200
    /\ out.resp.count = Cardinality(sel)
    /\ DOMAIN out.w.produits = DOMAIN produits
    /\ \A p \in DOMAIN produits :
           out.w.produits[p] =
               IF p \in sel THEN [produits[p] EXCEPT !.status = value]
               ELSE produits[p]
    /\ out.w.sellers = sellers

BulkSellersOk(out, sel, value) ==
    /\ out.resp.code = 200
    /\ out.resp.count = Cardinality(sel)
    /\ DOMAIN out.w.sellers = DOMAIN sellers
    /\ \A x \in DOMAIN sellers :
           out.w.sellers[x] =
               IF x \in sel THEN [sellers[x] EXCEPT !.status = value]
               ELSE sellers[x]
    /\ out.w.produits = produits

\* C8: bulk verify (bulk deactivate) over a selection of products or sellers
\* sets every selected entity to 'verified' ('unverified'), leaves every
\* unselected entity unchanged and reports the size of the selection,
\* however many selected entities already had the target status.
C8_BulkStatus ==
    /\ \A sel \in SUBSET DOMAIN produits :
           /\ BulkProduitsOk(verifier_produits(World, Staff, sel), sel, "verified")
           /\ BulkProduitsOk(desactiver_produits(World, Staff, sel), sel, "unverified")
    /\ \A sel \in SUBSET DOMAIN sellers :
           /\ BulkSellersOk(verifier_sellers(World, Staff, sel), sel, "verified")
           /\ BulkSellersOk(desactiver_sellers(World, Staff, sel), sel, "unverified")

\* C8 witness: a selection of two products, one already verified, beside an
\* unselected product, and a selection of one verified seller beside an
\* unselected seller: the bulk verify reports 2 and 1.
C8_Witness ==
    /\ \E p, q, r \in DOMAIN produits :
           /\ p # q /\ p # r /\ q # r
           /\ produits[p].status = "verified"
           /\ produits[q].status = "unverified"
           /\ produits[r].status = "unverified"
           /\ verifier_produits(World, Staff, {p, q}).resp.count = 2
           /\ verifier_produits(World, Staff, {p, q}).w.produits[r].status = "unverified"
    /\ \E x, y \in DOMAIN sellers :
           /\ x # y
           /\ sellers[x].status = "verified"
           /\ sellers[y].status = "unverified"
           /\ verifier_sellers(World, Staff, {x}).resp.count = 1

\* C9: appliquer_promotion over a selection gives every selected product
\* whose discount is 0 ancien_prix = its prix, reduction = 20 and categorie =
\* 'promotion', with prix and status unchanged; leaves every selected
\* product whose discount is above 0 and every unselected product unchanged;
\* and reports the number of selected products whose discount was 0.
C9_Promotion ==
    \A sel \in SUBSET DOMAIN produits :
        LET out == appliquer_promotion(World, Staff, sel)
        IN  /\ out.resp.code = 200
            /\ out.resp.count =
                   Cardinality({p \in sel : produits[p].reduction = 0})
            /\ DOMAIN out.w.produits = DOMAIN produits
            /\ \A p \in DOMAIN produits :
                   LET old == produits[p]
                       new == out.w.produits[p]
                   IN  \/ /\ p \in sel /\ old.reduction = 0
                          /\ new.ancien_prix = Some(old.prix)
                          /\ new.reduction = 20
                          /\ new.categorie = "promotion"
                          /\ new.prix = old.prix
                          /\ new.status = old.status
                       \/ /\ p \in sel /\ old.reduction > 0
                          /\ new = old
                       \/ /\ p \notin sel
                          /\ new = old

\* C9 witness: the selection holds a product without discount and a product
\* discounted at creation, beside an unselected product without discount:
\* the promotion updates the first alone and reports 1.
C9_Witness ==
    \E p, q, r \in DOMAIN produits :
        /\ p # r
        /\ produits[p].reduction = 0
        /\ produits[q].reduction = 50
        /\ produits[r].reduction = 0
        /\ LET out == appliquer_promotion(World, Staff, {p, q})
           IN  /\ out.resp.count = 1
               /\ out.w.produits[p].reduction = 20
               /\ out.w.produits[p].categorie = "promotion"
               /\ out.w.produits[q] = produits[q]
               /\ out.w.produits[r] = produits[r]

\* C10: appliquer_promotion applied a second time to the same selection,
\* with nothing in between, reports 0 products and leaves every product
\* exactly as the first application left it.
C10_PromotionIdempotent ==
    \A sel \in SUBSET DOMAIN produits :
        LET once == appliquer_promotion(World, Staff, sel)
            twice == appliquer_promotion(once.w, Staff, sel)
        IN  /\ twice.resp.code = 200
            /\ twice.resp.count = 0
            /\ twice.w = once.w

\* C10 witness: a selection of two products without discount: the first
\* application updates both, the second none.
C10_Witness ==
    \E p, q \in DOMAIN produits :
        /\ p # q
        /\ produits[p].reduction = 0
        /\ produits[q].reduction = 0
        /\ appliquer_promotion(World, Staff, {p, q}).resp.count = 2
        /\ appliquer_promotion(appliquer_promotion(World, Staff, {p, q}).w,
                               Staff, {p, q}).resp.count = 0

(***************************************************************************)
(* Two requests served concurrently.  A request that reads a row and saves *)
(* it takes two steps: the load (get_object_or_404, the evaluation of the  *)
(* admin queryset) keeps the row in the request, and the save writes every *)
(* field of that instance back (Model.save() without update_fields; when   *)
(* the row is gone the UPDATE matches nothing and save() inserts it).      *)
(* statistiques_dashboard takes one step for each of its count queries.    *)
(* The store holds one seller and one unverified product.                  *)
(***************************************************************************)
RequestIds == {1, 2}

ConcurrentOps == {"verifier_produit", "verifier_seller", "appliquer_promotion",
                  "modifier_produit", "creer_produit", "supprimer_produit",
                  "statistiques_dashboard"}

\* The operations that load the product and write it back
LoadingOps == {"verifier_produit", "appliquer_promotion", "modifier_produit",
               "supprimer_produit"}

Request(op) == [op |-> op, pc |-> "start", row |-> None, counts |-> <<>>, code |-> 0]

EmptyWorld == [produits |-> <<>>, sellers |-> <<>>, nextProduitId |-> 1,
               nextSellerId |-> 1, now |-> 0]

\* The store after one registration and one creation
StoredWorld ==
    creer_produit(
        register_seller(EmptyWorld, Anonymous,
            [email |-> Some("a@pinshop"), nom |-> Some(T_bot), status |-> None]).w,
        Staff, BodyRobe(1)).w

ModifierPrix == [prix |-> Some(30)] @@ EmptyBody

Commit(w) ==
    /\ produits' = w.produits
    /\ sellers' = w.sellers
    /\ nextProduitId' = w.nextProduitId
    /\ nextSellerId' = w.nextSellerId
    /\ now' = w.now

InitConcurrent ==
    /\ produits = StoredWorld.produits
    /\ sellers = StoredWorld.sellers
    /\ nextProduitId = StoredWorld.nextProduitId
    /\ nextSellerId = StoredWorld.nextSellerId
    /\ now = StoredWorld.now
    /\ instance = [prix |-> PyNone, reduction |-> PyInt(0)]
    /\ returned = NoCall
    /\ requests \in [RequestIds -> {Request(op) : op \in ConcurrentOps}]

\* The store as the request sees it at its save: its own copy of the row
Stale(r) ==
    IF requests[r].op = "verifier_seller"
    THEN [World EXCEPT !.sellers = (1 :> requests[r].row[1]) @@ sellers]
    ELSE [World EXCEPT !.produits = (1 :> requests[r].row[1]) @@ produits]

\* The rest of the view on the store as the request sees it
Resume(r) ==
    CASE requests[r].op = "verifier_produit" -> verifier_produit(Stale(r), Staff, 1)
      [] requests[r].op = "verifier_seller" -> verifier_seller(Stale(r), Staff, 1)
      [] requests[r].op = "appliquer_promotion" ->
             appliquer_promotion(Stale(r), Staff, {1})
      [] requests[r].op = "modifier_produit" ->
             modifier_produit(Stale(r), Staff, 1, ModifierPrix)
      [] requests[r].op = "supprimer_produit" -> supprimer_produit(Stale(r), Staff, 1)

\* get_object_or_404 / the evaluation of the queryset
Load ==
    \E r \in RequestIds :
        /\ requests[r].pc = "start"
        /\ requests[r].op \in LoadingOps \cup {"verifier_seller"}
        /\ requests' =
               [requests EXCEPT ![r] =
                   IF requests[r].op = "verifier_seller"
                   THEN [@ EXCEPT !.pc = "loaded", !.row = Some(sellers[1])]
                   ELSE IF 1 \in DOMAIN produits
                   THEN [@ EXCEPT !.pc = "loaded", !.row = Some(produits[1])]
                   ELSE IF @.op = "appliquer_promotion"
                   THEN [@ EXCEPT !.pc = "done", !.code = 200]
                   ELSE [@ EXCEPT !.pc = "done", !.code = 404]]
        /\ UNCHANGED <<produits, sellers, nextProduitId, nextSellerId, now,
                       instance, returned>>

\* instance.save() / instance.delete() and the response
Save ==
    \E r \in RequestIds :
        /\ requests[r].pc = "loaded"
        /\ Commit(Resume(r).w)
        /\ requests' = [requests EXCEPT ![r].pc = "done",
                                        ![r].code = Resume(r).resp.code]
        /\ UNCHANGED <<instance, returned>>

\* creer_produit: validation and one INSERT
Create ==
    \E r \in RequestIds :
        /\ requests[r].pc = "start"
        /\ requests[r].op = "creer_produit"
        /\ Commit(creer_produit(World, Staff, BodyRobe(1)).w)
        /\ requests' = [requests EXCEPT
               ![r].pc = "done",
               ![r].code = creer_produit(World, Staff, BodyRobe(1)).resp.code]
        /\ UNCHANGED <<instance, returned>>

\* One count query of statistiques_dashboard; the response follows the last
Count ==
    \E r \in RequestIds :
        /\ requests[r].pc = "start"
        /\ requests[r].op = "statistiques_dashboard"
        /\ LET k == Len(requests[r].counts) + 1
           IN  requests' = [requests EXCEPT
                   ![r].counts = Append(@, StatsQuery(World, k)),
                   ![r].pc = IF k = Len(StatsKeys) THEN "done" ELSE "start",
                   ![r].code = IF k = Len(StatsKeys) THEN 200 ELSE 0]
        /\ UNCHANGED <<produits, sellers, nextProduitId, nextSellerId, now,
                       instance, returned>>

NextConcurrent ==
    \/ Load
    \/ Save
    \/ Create
    \/ Count

SpecConcurrent == InitConcurrent /\ [][NextConcurrent]_vars

(***************************************************************************)
(* Pricing                                                                 *)
(***************************************************************************)
\* p * (1 - d / 100) for fractions p and d
Discounted(p, d) == Float(p.num * (100 * d.den - d.num), p.den * 100 * d.den)

AsFloat(v) == Float(v.num, v.den)

\* C11: for a base price p >= 0 and a discount d in [0,100],
\* prix_avec_reduction returns p when d = 0 and p * (1 - d/100) otherwise;
\* the result is non-negative, at most p, and a larger discount never gives
\* a larger result for the same price.
C11_EffectivePrice ==
    (/\ returned.fn = "prix_avec_reduction"
     /\ instance.prix \in PrixValues
     /\ instance.reduction \in ReductionValues)
    => LET p == AsFloat(instance.prix)
           d == AsFloat(instance.reduction)
           out == returned.out
       IN  /\ out.raised = ""
           /\ d.num = 0 => FloatEq(out.value, p)
           /\ d.num # 0 => FloatEq(out.value, Discounted(p, d))
           /\ out.value.num >= 0
           /\ FloatLeq(out.value, p)
           /\ \A d2 \in ReductionValues :
                  FloatLeq(d, AsFloat(d2)) =>
                      FloatLeq(prix_avec_reduction(
                                   [instance EXCEPT !.reduction = d2]).value,
                               out.value)

\* C11 witness: the property was read on a price of 100 with a discount of
\* 20 and gave 80.
C11_Witness ==
    /\ returned.fn = "prix_avec_reduction"
    /\ instance.prix = PyDecimal(100, 1)
    /\ instance.reduction = PyDecimal(20, 1)
    /\ FloatEq(returned.out.value, Float(80, 1))

\* C12 (as claimed): for any prix and reduction, absent, numeric or malformed
\* text, prix_avec_reduction does not raise and returns a non-negative number
\* equal to to_float(prix) when to_float(reduction) is not positive and to
\* to_float(prix) * (1 - to_float(reduction)/100) otherwise.
C12_TolerantEffectivePrice ==
    returned.fn = "prix_avec_reduction"
    => LET p == to_float(instance.prix).value
           d == to_float(instance.reduction).value
           out == returned.out
       IN  /\ out.raised = ""
           /\ out.value.num >= 0
           /\ d.num <= 0 => FloatEq(out.value, p)
           /\ d.num > 0 => FloatEq(out.value, Discounted(p, d))

\* C13: to_float never raises; None and the empty string give 0.0, an int,
\* float or Decimal gives the same number, a text is parsed after the
\* currency symbol and the surrounding whitespace are removed and a comma is
\* replaced by a period ('12,50 €' gives 12.50), and a text that still does
\* not parse ('abc') gives 0.0.
C13_ToFloat ==
    returned.fn = "to_float"
    => LET v == returned.arg
           out == returned.out
           cleaned == strip(replace(replace(v.text, "€", <<>>), ",", <<".">>))
       IN  /\ out.raised = ""
           /\ (v = PyNone \/ v = PyStr(<<>>)) => FloatEq(out.value, Float(0, 1))
           /\ v.type \in {"int", "float", "Decimal"} => FloatEq(out.value, AsFloat(v))
           /\ (v.type = "str" /\ v.text # <<>>) =>
                  IF ParseFloat(cleaned).raised = ""
                  THEN FloatEq(out.value, ParseFloat(cleaned).value)
                  ELSE FloatEq(out.value, Float(0, 1))
           /\ v = PyStr(T_12_50_euro) => FloatEq(out.value, Float(1250, 100))
           /\ v = PyStr(T_abc) => FloatEq(out.value, Float(0, 1))
           /\ v = PyStr(T_7) => FloatEq(out.value, Float(7, 1))

\* C13 witness: to_float was called on '12,50 €' and gave 12.50.
C13_Witness ==
    /\ returned.fn = "to_float"
    /\ returned.arg = PyStr(T_12_50_euro)
    /\ returned.out = Returns(Float(1250, 100))

(***************************************************************************)
(* Validation                                                              *)
(***************************************************************************)
\* A request body whose discount is outside [0,100] or whose couleur or
\* taille is not a list
InvalidBody(body) ==
    \/ body.reduction # None /\ (body.reduction[1] < 0 \/ body.reduction[1] > 100)
    \/ body.couleur # None /\ ~is_list(body.couleur[1])
    \/ body.taille # None /\ ~is_list(body.taille[1])

\* C14: after any sequence of creer_produit, modifier_produit and bulk
\* promotion operations every stored product has a discount in [0,100] and
\* list-shaped couleur and taille; a create or update request with a discount
\* outside [0,100] or a non-list couleur or taille is answered 400 and leaves
\* the store unchanged.
C14_ValidatedFields ==
    /\ \A p \in DOMAIN produits :
           /\ produits[p].reduction >= 0 /\ produits[p].reduction <= 100
           /\ is_list(produits[p].couleur)
           /\ is_list(produits[p].taille)
    /\ \A body \in CreerBodies :
           InvalidBody(body) =>
               /\ creer_produit(World, Staff, body).resp.code = 400
               /\ creer_produit(World, Staff, body).w = World
    /\ \A body \in CreerBodies \cup ModifierBodies, p \in DOMAIN produits :
           InvalidBody(body) =>
               /\ modifier_produit(World, Staff, p, body).resp.code = 400
               /\ modifier_produit(World, Staff, p, body).w = World

\* C14 witness: products created with no discount and with a discount of 50,
\* the first one then put on promotion, and requests with a discount of 150,
\* a discount of -5 and a couleur that is a bare string refused.
C14_Witness ==
    /\ \E p, q \in DOMAIN produits :
           produits[p].reduction = 20 /\ produits[q].reduction = 50
    /\ \E body \in CreerBodies :
           /\ body.reduction = Some(150)
           /\ creer_produit(World, Staff, body).resp.code = 400
    /\ \E body \in CreerBodies :
           /\ body.couleur = Some(JsonStr(T_rouge))
           /\ creer_produit(World, Staff, body).resp.code = 400
    /\ \E body \in ModifierBodies, p \in DOMAIN produits :
           /\ body.reduction = Some(0 - 5)
           /\ modifier_produit(World, Staff, p, body).resp.code = 400

(***************************************************************************)
(* Search                                                                  *)
(***************************************************************************)
\* The verified products one of whose nom, tags and description contains
\* the text, whatever the case
DirectMatches(text) ==
    {p \in DOMAIN produits :
        /\ produits[p].status = "verified"
        /\ \/ contains(lower(produits[p].nom), lower(text))
           \/ contains(lower(produits[p].tags), lower(text))
           \/ contains(lower(produits[p].description), lower(text))}

\* The verified products whose nom starts with the first 4 characters of the
\* text or whose tags contain them, whatever the case
PrefixMatches(text) ==
    LET prefix == lower(SubSeq(text, 1, 4))
    IN  {p \in DOMAIN produits :
            /\ produits[p].status = "verified"
            /\ \/ /\ Len(produits[p].nom) >= 4
                  /\ lower(SubSeq(produits[p].nom, 1, 4)) = prefix
               \/ contains(lower(produits[p].tags), prefix)}

\* C15: when some verified product matches the text directly,
\* recherche_produits returns exactly the verified products whose nom, tags
\* or description contains the text case-insensitively, each once, and its
\* count is the number of products returned.
C15_SearchDirect ==
    \A c \in Callers, text \in SearchTexts :
        DirectMatches(text) # {} =>
            LET out == recherche_produits(World, c, text)
            IN  /\ out.resp.code = 200
                /\ ResultIds(out) = DirectMatches(text)
                /\ Len(out.resp.results) = Cardinality(DirectMatches(text))
                /\ out.resp.count = Len(out.resp.results)

\* C15 witness: two verified products match 'bot', one in its nom and its
\* tags, the other in its description only, and the search returns both once.
C15_Witness ==
    \E p, q \in DOMAIN produits :
        /\ p # q
        /\ produits[p].status = "verified" /\ produits[q].status = "verified"
        /\ icontains(produits[p].nom, T_bot) /\ icontains(produits[p].tags, T_bot)
        /\ ~icontains(produits[q].nom, T_bot) /\ ~icontains(produits[q].tags, T_bot)
        /\ icontains(produits[q].description, T_bot)
        /\ recherche_produits(World, Anonymous, T_bot).resp.count = 2
        /\ ResultIds(recherche_produits(World, Anonymous, T_bot)) = {p, q}

\* C16: recherche_produits falls back only when no verified product matches
\* directly and the text has at least 4 characters; it then returns exactly
\* the verified products whose nom starts with the first 4 characters of the
\* text or whose tags contain them; a text shorter than 4 characters without
\* a direct match returns no product and count 0.
C16_SearchFallback ==
    \A c \in Callers, text \in SearchTexts :
        LET out == recherche_produits(World, c, text)
        IN  /\ DirectMatches(text) # {} => ResultIds(out) = DirectMatches(text)
            /\ (DirectMatches(text) = {} /\ Len(text) >= 4) =>
                   /\ ResultIds(out) = PrefixMatches(text)
                   /\ out.resp.count = Cardinality(PrefixMatches(text))
            /\ (DirectMatches(text) = {} /\ Len(text) < 4) =>
                   /\ out.resp.results = <<>>
                   /\ out.resp.count = 0
                   /\ out.resp.code = 200

\* C16 witness: no verified product matches 'obotx' or 'robex' directly; the
\* fallback on 'obotx' returns a product through its tags only, the fallback
\* on 'robex' one through the start of its nom, and 'xy' returns nothing.
C16_Witness ==
    /\ DirectMatches(T_obotx) = {} /\ DirectMatches(T_robex) = {}
    /\ \E p \in ResultIds(recherche_produits(World, Anonymous, T_obotx)) :
           /\ ~istartswith(produits[p].nom, Prefix(T_obotx, 4))
           /\ icontains(produits[p].tags, Prefix(T_obotx, 4))
    /\ \E p \in ResultIds(recherche_produits(World, Anonymous, T_robex)) :
           istartswith(produits[p].nom, Prefix(T_robex, 4))
    /\ DirectMatches(T_xy) = {}
    /\ recherche_produits(World, Anonymous, T_xy).resp.count = 0

(***************************************************************************)
(* Category filter                                                         *)
(***************************************************************************)
\* results[i] was created no earlier than results[j] for i before j
NewestFirst(results) ==
    \A i, j \in DOMAIN results :
        i < j => results[i].created_at >= results[j].created_at

\* C17: produits_par_categorie answers a category name outside the five
\* enumerated ones with a 400 that carries the valid names, never with a
\* success; for a valid name it returns exactly the verified products of
\* that category, newest first.
C17_CategoryFilter ==
    \A c \in Callers, cat \in Categories :
        LET out == produits_par_categorie(World, c, cat, 1, None)
            valid == {"tendances", "nouveautés", "populaire", "promotion", "chere"}
            expected == {p \in DOMAIN produits :
                            /\ produits[p].status = "verified"
                            /\ produits[p].categorie = cat}
        IN  /\ cat \notin valid =>
                   /\ out.resp.code = 400
                   /\ "categories_disponibles" \in out.resp.keys
                   /\ out.resp.sel = valid
                   /\ out.resp.results = <<>>
            /\ cat \in valid =>
                   /\ out.resp.code = 200
                   /\ ResultIds(out) = expected
                   /\ Len(out.resp.results) = Cardinality(expected)
                   /\ out.resp.count = Cardinality(expected)
                   /\ NewestFirst(out.resp.results)

\* C17 witness: two verified products of category 'tendances' created at
\* different times and a product of another category are stored; the filter
\* on 'tendances' returns the two, the later one first, and the filter on
\* 'soldes' is answered 400.
C17_Witness ==
    /\ \E p, q, r \in DOMAIN produits :
           /\ produits[p].categorie = "tendances" /\ produits[p].status = "verified"
           /\ produits[q].categorie = "tendances" /\ produits[q].status = "verified"
           /\ produits[r].categorie = "populaire"
           /\ produits[p].created_at > produits[q].created_at
           /\ LET out == produits_par_categorie(World, Anonymous, "tendances", 1, None)
              IN  /\ Len(out.resp.results) = 2
                  /\ out.resp.results[1].id = p
                  /\ out.resp.results[2].id = q
    /\ produits_par_categorie(World, Anonymous, "soldes", 1, None).resp.code = 400

(***************************************************************************)
(* Attribute filter and sort                                               *)
(***************************************************************************)
\* A query parameter that was supplied (an empty value counts as omitted)
Supplied(q, f) == q[f] # None /\ q[f][1] # <<>>

\* Some item of the list contains the text, whatever the case
ListContains(list, text) ==
    \E i \in DOMAIN list.items : contains(lower(list.items[i]), lower(text))

\* The row satisfies every supplied filter of q; a price bound that is not a
\* number is dropped
Satisfies(row, q) ==
    /\ Supplied(q, "couleur") => ListContains(row.couleur, q.couleur[1])
    /\ Supplied(q, "taille") => ListContains(row.taille, q.taille[1])
    /\ (q.categorie # None /\ q.categorie[1] # "") =>
           row.categorie = q.categorie[1]
    /\ (Supplied(q, "prix_min") /\ ParseFloat(q.prix_min[1]).raised = "") =>
           FloatLeq(ParseFloat(q.prix_min[1]).value, Float(row.prix, 1))
    /\ (Supplied(q, "prix_max") /\ ParseFloat(q.prix_max[1]).raised = "") =>
           FloatLeq(Float(row.prix, 1), ParseFloat(q.prix_max[1]).value)

SortedBy(results, key) ==
    \A i, j \in DOMAIN results :
        i < j =>
            CASE key = "prix" -> results[i].prix <= results[j].prix
              [] key = "-prix" -> results[i].prix >= results[j].prix
              [] key = "nom" -> TextLeq(results[i].nom, results[j].nom)
              [] key = "-nom" -> TextLeq(results[j].nom, results[i].nom)
              [] key = "created_at" -> results[i].created_at <= results[j].created_at
              [] key = "-created_at" -> results[i].created_at >= results[j].created_at

\* C19: trier_produits orders by the requested key when it is one of prix,
\* -prix, nom, -nom, created_at, -created_at; for any other key and without a
\* key it orders by creation time descending; the request succeeds and
\* returns the same products as for an allowed key.
C19_SortAllowList ==
    \A c \in Callers,
       q \in {EmptyQuery,
              [prix_min |-> Some(T_40), prix_max |-> Some(T_100)] @@ EmptyQuery} :
        LET sorted(o) == trier_produits(World, c, [q EXCEPT !.ordre = o], 1, None)
            allowed == {"prix", "-prix", "nom", "-nom", "created_at", "-created_at"}
        IN  /\ \A o \in allowed : SortedBy(sorted(Some(o)).resp.results, o)
            /\ \A o \in {None} \cup {Some(x) : x \in OrdreValues \ allowed} :
                   /\ sorted(o).resp.code = 200
                   /\ SortedBy(sorted(o).resp.results, "-created_at")
                   /\ ResultIds(sorted(o)) = ResultIds(sorted(Some("prix")))
                   /\ sorted(o).resp.count = sorted(Some("prix")).resp.count

\* C19 witness: a verified product priced 100 and a later verified product
\* priced 40; ordre=-prix returns the first before the second, and
\* ordre=malicious_field returns the later one first.
C19_Witness ==
    \E p, q \in DOMAIN produits :
        /\ produits[p].status = "verified" /\ produits[p].prix = 100
        /\ produits[q].status = "verified" /\ produits[q].prix = 40
        /\ produits[p].created_at < produits[q].created_at
        /\ LET byPrix == trier_produits(World, Anonymous,
                             [ordre |-> Some("-prix")] @@ EmptyQuery, 1, None)
               other == trier_produits(World, Anonymous,
                            [ordre |-> Some("malicious_field")] @@ EmptyQuery, 1, None)
           IN  /\ byPrix.resp.results[1].id = p /\ byPrix.resp.results[2].id = q
               /\ other.resp.code = 200
               /\ other.resp.results[1].id = q /\ other.resp.results[2].id = p

(***************************************************************************)
(* Random refresh                                                          *)
(***************************************************************************)
\* The identifiers an exclusion list names: its tokens that are decimal
\* numbers
NamedIds(exclus) ==
    LET parts == Split(exclus, ",")
    IN  {ParseInt(parts[j]) :
            j \in {k \in 1..Len(parts) :
                      /\ Len(parts[k]) > 0
                      /\ \A i \in 1..Len(parts[k]) : parts[k][i] \in Digits}}

\* C20 (as claimed): actualiser_produits returns at most 30 products, none
\* twice, and none whose identifier is in the exclusion list, also when the
\* list mixes identifiers with malformed tokens.
C20_RefreshExcludes ==
    \A c \in Callers, exclus \in ExclusTexts :
        \A shuffle \in Shuffles(ActualiserCandidates(World, exclus)) :
            LET out == actualiser_produits(World, c, exclus, shuffle)
            IN  /\ Len(out.resp.results) <= 30
                /\ Cardinality(ResultIds(out)) = Len(out.resp.results)
                /\ ResultIds(out) \cap NamedIds(exclus) = {}

(***************************************************************************)
(* Scope of the lookups                                                    *)
(***************************************************************************)
\* C21 (as claimed): for a staff caller produits_seller returns the seller's
\* unverified products as well as the verified ones and details_produit
\* returns an unverified product; for a caller who is not staff both are
\* restricted to verified products and an unverified id is not found.
C21_ElevatedScope ==
    /\ \A s \in DOMAIN sellers :
           /\ ResultIds(produits_seller(World, Staff, s, 1, None))
                  = {p \in DOMAIN produits : produits[p].seller = s}
           /\ \A c \in {Anonymous, Client} :
                  ResultIds(produits_seller(World, c, s, 1, None))
                      = {p \in DOMAIN produits :
                            /\ produits[p].seller = s
                            /\ produits[p].status = "verified"}
    /\ \A p \in DOMAIN produits :
           produits[p].status = "unverified" =>
               /\ details_produit(World, Staff, p).resp.code = 200
               /\ ResultIds(details_produit(World, Staff, p)) = {p}
               /\ \A c \in {Anonymous, Client} :
                      details_produit(World, c, p).resp.code = 404

(***************************************************************************)
(* Error bodies                                                            *)
(***************************************************************************)
\* The response is an error without both keys 'error' and 'details'
BareError(out) ==
    out.resp.code >= 400 /\ ~({"error", "details"} \subseteq out.resp.keys)

\* C22 (as claimed): every error response of a view (400, 404, 500) carries
\* the keys 'error' and 'details'.
C22_ErrorKeys ==
    \A c \in {Anonymous, Staff} :
        /\ \A id \in ProduitIds :
               /\ ~BareError(details_produit(World, c, id))
               /\ ~BareError(verifier_produit(World, Staff, id))
               /\ ~BareError(supprimer_produit(World, Staff, id))
               /\ \A body \in ModifierBodies :
                      ~BareError(modifier_produit(World, Staff, id, body))
        /\ \A id \in SellerIds :
               /\ ~BareError(produits_seller(World, c, id, 1, None))
               /\ ~BareError(verifier_seller(World, Staff, id))
        /\ \A cat \in Categories :
               ~BareError(produits_par_categorie(World, c, cat, 1, None))
        /\ \A body \in CreerBodies : ~BareError(creer_produit(World, Staff, body))
        /\ \A pg \in Pages : ~BareError(api_produits(World, c, pg[1], pg[2]))

(***************************************************************************)
(* Seller status and product visibility                                    *)
(***************************************************************************)
\* C25: a verified product is in the public catalog whatever the status of
\* its seller, and verifier_seller, verifier_sellers and desactiver_sellers
\* change no product and leave the public catalog as it was.
C25_SellerStatusIndependent ==
    /\ \A p \in DOMAIN produits :
           (p \in Catalog) <=> (produits[p].status = "verified")
    /\ \A s \in SellerIds :
           LET out == verifier_seller(World, Staff, s)
           IN  out.w.produits = produits /\ CatalogOf(out.w) = Catalog
    /\ \A sel \in SUBSET DOMAIN sellers :
           /\ verifier_sellers(World, Staff, sel).w.produits = produits
           /\ CatalogOf(verifier_sellers(World, Staff, sel).w) = Catalog
           /\ desactiver_sellers(World, Staff, sel).w.produits = produits
           /\ CatalogOf(desactiver_sellers(World, Staff, sel).w) = Catalog

\* C25 witness: a verified product of an unverified seller is in the catalog,
\* and a verified product of a verified seller stays in it when the seller
\* is deactivated.
C25_Witness ==
    /\ \E p \in DOMAIN produits :
           /\ produits[p].status = "verified"
           /\ sellers[produits[p].seller].status = "unverified"
           /\ p \in Catalog
    /\ \E q \in DOMAIN produits :
           LET s == produits[q].seller
               out == desactiver_sellers(World, Staff, {s})
           IN  /\ produits[q].status = "verified"
               /\ sellers[s].status = "verified"
               /\ out.w.sellers[s].status = "unverified"
               /\ q \in CatalogOf(out.w)

(***************************************************************************)
(* Frame of the product update                                             *)
(***************************************************************************)
\* C26: for every body, one carrying a status included, modifier_produit
\* leaves the product's status, likes and created_at as they were, so an
\* unverified product does not enter the public catalog through an update;
\* a request that is refused (validation error, unknown id) changes nothing.
C26_UpdateFrame ==
    \A c \in Callers, id \in ProduitIds, body \in ModifierBodies \cup CreerBodies :
        LET out == modifier_produit(World, c, id, body)
        IN  /\ id \in DOMAIN produits =>
                   /\ id \in DOMAIN out.w.produits
                   /\ out.w.produits[id].status = produits[id].status
                   /\ out.w.produits[id].likes = produits[id].likes
                   /\ out.w.produits[id].created_at = produits[id].created_at
                   /\ produits[id].status = "unverified" => id \notin CatalogOf(out.w)
            /\ out.resp.code # 200 => out.w = World
            /\ id \notin DOMAIN produits => out.resp.code \in {403, 404}

\* C26 witness: an update carrying status 'verified', a price and a like
\* count is accepted for an unverified product; the price is changed, the
\* product stays unverified with its like count; an update with a taille
\* that is not a list is refused.
C26_Witness ==
    \E p \in DOMAIN produits :
        LET body == [prix |-> Some(30), status |-> Some("verified"),
                     likes |-> Some(5)] @@ EmptyBody
            out == modifier_produit(World, Staff, p, body)
        IN  /\ body \in ModifierBodies
            /\ produits[p].status = "unverified" /\ produits[p].prix # 30
            /\ out.resp.code = 200
            /\ out.w.produits[p].prix = 30
            /\ out.w.produits[p].status = "unverified"
            /\ out.w.produits[p].likes = 0
            /\ modifier_produit(World, Staff, p,
                   [taille |-> Some(JsonStr(T_M))] @@ EmptyBody).resp.code = 400

(***************************************************************************)
(* Concurrent requests                                                     *)
(***************************************************************************)
BothDone == \A r \in RequestIds : requests[r].pc = "done"

Ops == {requests[r].op : r \in RequestIds}

\* C23: two verifier_produit calls on one product, or two verifier_seller
\* calls on one seller, interleaved in any way, both answer 200 and leave the
\* status 'verified'.
C23_ConcurrentVerify ==
    /\ (BothDone /\ Ops = {"verifier_produit"}) =>
           /\ \A r \in RequestIds : requests[r].code = 200
           /\ produits[1].status = "verified"
    /\ (BothDone /\ Ops = {"verifier_seller"}) =>
           /\ \A r \in RequestIds : requests[r].code = 200
           /\ sellers[1].status = "verified"

\* C23 witness: two verifier_produit calls that both loaded the product
\* while it was unverified have both saved it.
C23_Witness ==
    /\ BothDone
    /\ Ops = {"verifier_produit"}
    /\ \A r \in RequestIds :
           requests[r].row # None /\ requests[r].row[1].status = "unverified"
    /\ produits[1].status = "verified"
    /\ produits[1].updated_at = StoredWorld.now + 2

\* C24 (as claimed): when verifier_produit runs concurrently with
\* appliquer_promotion or modifier_produit on one product, the final row is
\* verified and carries the promotion (reduction 20, categorie promotion) or
\* the update (prix 30), in every interleaving.
C24_NoLostWrite ==
    /\ (BothDone /\ Ops = {"verifier_produit", "appliquer_promotion"}) =>
           /\ produits[1].status = "verified"
           /\ produits[1].reduction = 20
           /\ produits[1].categorie = "promotion"
    /\ (BothDone /\ Ops = {"verifier_produit", "modifier_produit"}) =>
           /\ produits[1].status = "verified"
           /\ produits[1].prix = 30

\* C27 (as claimed): in every response of statistiques_dashboard,
\* produits_verifies + produits_non_verifies = total_produits and
\* sellers_verifies + sellers_non_verifies = total_sellers, also when a
\* creation, a deletion or a verification runs between its count queries.
C27_StatsAddUp ==
    \A r \in RequestIds :
        (requests[r].op = "statistiques_dashboard" /\ requests[r].pc = "done") =>
            /\ requests[r].counts[2] + requests[r].counts[3] = requests[r].counts[1]
            /\ requests[r].counts[5] + requests[r].counts[6] = requests[r].counts[4]

====
